---- MODULE Spec2Model ----
(***************************************************************************)
(* The view-state / session controller of the expense tracker: the root    *)
(* component App, in its three variants                                    *)
(*   variant 0: src/unnamed/part_000 (lines 408-694)                       *)
(*   variant 1: src/unnamed/part_001                                       *)
(*   variant 2: src/unnamed/part_002                                       *)
(* together with the two external collaborators it talks to: the identity  *)
(* provider (onAuthStateChanged, signOut) and the document store (getDoc,  *)
(* setDoc, updateDoc, deleteDoc, onSnapshot).                              *)
(*                                                                         *)
(* React state (useState) is one variable per hook.  An async handler is   *)
(* cut at every await: the part before the await is one action, and each   *)
(* continuation is another, taken when the awaited store call completes    *)
(* (successfully or not).  The subscription effect (useEffect on [user])   *)
(* runs after the render that follows a setUser, so it is its own action.  *)
(***************************************************************************)
EXTENDS Integers, Sequences, FiniteSets, Bags, TLC

\* Bounds of the model.
MaxInflight == 2     \* store / provider calls awaiting completion at one time
MaxTime == 1         \* Date.now() ranges over 0..MaxTime
MaxDocs == 1         \* expense documents ever created (store-generated keys)
MaxMessage == 3      \* characters of an error message

DefaultBudget == 10000

Variants == {0, 1, 2}
Uids == {"A", "B"}
NoUser == "none"
\* Text (error.message, dbError, indexUrl) is a sequence of characters.  The
\* alphabet has a whitespace character, a non-whitespace character, and the text
\* https://console.firebase.google.com taken as one (non-whitespace) character.
UrlPrefix == "https://console.firebase.google.com"
Space == " "
Chars == {UrlPrefix, "x", Space}
Null == <<"null">>
IndexRequired == <<"INDEX_REQUIRED">>
PermissionDenied == <<"PERMISSION_DENIED">>
NoExpense == [none |-> TRUE]
NoDoc == [absent |-> TRUE]
Views == {"LOGIN", "REGISTER", "WELCOME", "DASHBOARD", "REPORT",
          "ADD_EXPENSE", "EDIT_EXPENSE"}
IndexUrl == <<UrlPrefix, "x">>
ErrMessage == <<"x", "x">>

VARIABLES
    variant,          \* which App variant runs
    view, user, expenses, budget, editingExpense, loading, dbError, indexUrl,
    authUser,         \* identity last reported by the provider ("unset" before the first report)
    effectStale,      \* user changed since the subscription effect last ran
    subUser,          \* the uid the last effect run subscribed with (NoUser: none)
    listeners,        \* active store listeners: <<kind, uid>>
    inflight,         \* bag of awaited calls, each with what its continuation needs
    profiles,         \* store: users/{uid}
    expenseDocs,      \* store: users/{uid}/expenses/{key}
    nextKey,          \* next store-generated document key
    now,              \* Date.now()
    form,             \* the Login component's own state while it is mounted
    last              \* history: the step that led here, when a property singles it out

ctl == <<view, user, expenses, budget, editingExpense, loading, dbError, indexUrl>>
store == <<profiles, expenseDocs, nextKey>>
subs == <<effectStale, subUser, listeners>>
vars == <<variant, ctl, authUser, subs, inflight, store, now, form, last>>

----------------------------------------------------------------------------
\* helpers

One(op) == SetToBag({op})
Pending == BagToSet(inflight)
HasRoom == BagCardinality(inflight) < MaxInflight
Times == 0..MaxTime

\* History: the step that led here, for the steps the properties single out.
Did(tag) == last' = tag
Quiet == last' = "-"

\* The views a variant can render (variant 2 has no WELCOME case).
Rendered(v) == IF variant = 2 THEN v # "WELCOME" ELSE TRUE

\* renderContent's index-required gate replaces Dashboard and Report.
IndexGate ==
    dbError = IndexRequired /\ indexUrl # Null /\ view \in {"DASHBOARD", "REPORT"}

\* The screen `v` is mounted and can raise events.
Shows(v) == ~loading /\ view = v /\ ~IndexGate

\* Login's useState values; a Login that is not rendered has no state.  A
\* message is the sequence of its parts, '' is <<>>; the texts are given in
\* English.  `checked` says that the
\* mount effect has run, `awaits` are the calls the mounted Login is suspended on.
Unmounted == [mounted |-> FALSE, error |-> <<>>, isUnauthorizedDomain |-> FALSE,
              success |-> <<>>, loading |-> FALSE, checked |-> FALSE, awaits |-> {}]
Mounted == [Unmounted EXCEPT !.mounted = TRUE]

\* App renders Login when it shows no spinner and the view is LOGIN.  React
\* creates Login's state at the first such render, keeps it while Login stays
\* rendered and drops it when it is not.
FormFollows ==
    form' = IF ~loading' /\ view' = "LOGIN"
            THEN IF form.mounted THEN form ELSE Mounted
            ELSE Unmounted

----------------------------------------------------------------------------
Constructed ==
    /\ variant \in Variants
    /\ view = "LOGIN"
    /\ user = NoUser
    /\ expenses = <<>>
    /\ budget = DefaultBudget
    /\ editingExpense = NoExpense
    /\ loading = TRUE
    /\ dbError = Null
    /\ indexUrl = Null
    /\ authUser = "unset"
    /\ effectStale = FALSE
    /\ subUser = NoUser
    /\ listeners = {}
    /\ inflight = EmptyBag
    /\ profiles = [u \in Uids |-> NoDoc]
    /\ nextKey = 1
    /\ now = 0
    /\ form = Unmounted
    /\ last = "-"

\* A page load over an empty store.
Init == Constructed /\ expenseDocs = {}

\* Date.now(): time may have moved on since the last reading.
Tick ==
    /\ now < MaxTime
    /\ now' = now + 1
    /\ UNCHANGED <<variant, ctl, authUser, subs, inflight, store, last>>
    /\ FormFollows

----------------------------------------------------------------------------
\* handleNavigate

\* handleNavigate without the reset of the edited record.
handleNavigateKeepsEdit(newView) ==
    /\ ~loading
    /\ view' = newView
    /\ Did(IF view = "EDIT_EXPENSE" /\ editingExpense # NoExpense
           THEN "navigatedFromEdit" ELSE "-")
    /\ UNCHANGED <<variant, user, expenses, budget, editingExpense, loading, dbError,
                   indexUrl, authUser, subs, inflight, store, now>>
    /\ FormFollows

handleNavigate(newView) ==
    /\ ~loading
    /\ editingExpense' = IF newView # "EDIT_EXPENSE" THEN NoExpense ELSE editingExpense
    /\ view' = newView
    /\ Did(IF view = "EDIT_EXPENSE" /\ editingExpense # NoExpense
           THEN "navigatedFromEdit" ELSE "-")
    /\ UNCHANGED <<variant, user, expenses, budget, loading, dbError, indexUrl,
                   authUser, subs, inflight, store, now>>
    /\ FormFollows

----------------------------------------------------------------------------
\* onAuthStateChanged callback

\* The updater passed to setView once the profile is ensured.
authView(current) ==
    CASE variant = 0 -> IF current \in {"LOGIN", "REGISTER"} THEN "WELCOME" ELSE current
      [] variant = 1 -> IF current \in {"LOGIN", "REGISTER"} THEN "WELCOME"
                        ELSE IF current = "WELCOME" THEN "WELCOME" ELSE "DASHBOARD"
      [] variant = 2 -> "DASHBOARD"

\* The callback up to its first await (signed-in branch) or whole (signed-out branch).
onAuthStateChanged(fbUser) ==
    /\ fbUser # authUser
    /\ authUser' = fbUser
    /\ IF fbUser # NoUser
       THEN /\ HasRoom
            /\ user' = fbUser
            /\ effectStale' = TRUE
            /\ inflight' = inflight (+) One([op |-> "getDoc", uid |-> fbUser])
            /\ Did(IF user = NoUser THEN "signedIn" ELSE "-")
            /\ UNCHANGED <<view, expenses, loading>>
       ELSE /\ user' = NoUser
            /\ expenses' = <<>>
            /\ view' = "LOGIN"
            /\ loading' = FALSE
            /\ effectStale' = (effectStale \/ user # NoUser)
            /\ Quiet
            /\ UNCHANGED inflight
    /\ UNCHANGED <<variant, budget, editingExpense, dbError, indexUrl,
                   subUser, listeners, store, now>>
    /\ FormFollows

\* The tail of the signed-in branch: setView(updater); setLoading(false).
AuthTail(o) ==
    /\ view' = authView(view)
    /\ loading' = FALSE
    /\ inflight' = inflight (-) One(o)
    /\ Quiet

\* The awaited call threw.  Variant 0 catches and falls through to the tail;
\* variants 1 and 2 have no try/catch, so the async callback rejects there.
AuthThrow(o) ==
    IF variant = 0
    THEN AuthTail(o)
    ELSE /\ inflight' = inflight (-) One(o)
         /\ Quiet
         /\ UNCHANGED <<view, loading>>

\* getDoc(userDocRef) resolved: branch on userDoc.exists().
getDocResolved(o) ==
    /\ o \in Pending /\ o.op = "getDoc"
    /\ IF profiles[o.uid] = NoDoc
       THEN /\ inflight' = (inflight (-) One(o))
                             (+) One([op |-> "setDoc", uid |-> o.uid, t |-> now])
            /\ Quiet
            /\ UNCHANGED <<view, loading>>
       ELSE IF variant \in {0, 1}
            THEN /\ inflight' = (inflight (-) One(o))
                                  (+) One([op |-> "updateDoc", uid |-> o.uid, t |-> now])
                 /\ Quiet
                 /\ UNCHANGED <<view, loading>>
            ELSE AuthTail(o)
    /\ UNCHANGED <<variant, user, expenses, budget, editingExpense, dbError, indexUrl,
                   authUser, subs, store, now>>
    /\ FormFollows

getDocRejected(o) ==
    /\ o \in Pending /\ o.op = "getDoc"
    /\ AuthThrow(o)
    /\ UNCHANGED <<variant, user, expenses, budget, editingExpense, dbError, indexUrl,
                   authUser, subs, store, now>>
    /\ FormFollows

\* The document written when the profile is absent.
NewProfile(t) == [createdAt |-> t, lastLogin |-> t, monthlyBudget |-> DefaultBudget]

\* The fields written when the profile exists.
TouchProfile(d, t) == [f \in DOMAIN d \cup {"lastLogin"} |->
                          IF f = "lastLogin" THEN t ELSE d[f]]

\* setDoc / updateDoc of the profile resolved: the store holds the write.
profileWriteResolved(o) ==
    /\ o \in Pending /\ o.op \in {"setDoc", "updateDoc"}
    /\ IF o.op = "setDoc"
       THEN profiles' = [profiles EXCEPT ![o.uid] = NewProfile(o.t)]
       ELSE /\ profiles[o.uid] # NoDoc
            /\ profiles' = [profiles EXCEPT ![o.uid] = TouchProfile(@, o.t)]
    /\ AuthTail(o)
    /\ UNCHANGED <<variant, user, expenses, budget, editingExpense, dbError, indexUrl,
                   authUser, subs, expenseDocs, nextKey, now>>
    /\ FormFollows

profileWriteRejected(o) ==
    /\ o \in Pending /\ o.op \in {"setDoc", "updateDoc"}
    /\ AuthThrow(o)
    /\ UNCHANGED <<variant, user, expenses, budget, editingExpense, dbError, indexUrl,
                   authUser, subs, store, now>>
    /\ FormFollows

----------------------------------------------------------------------------
\* the subscription effect, useEffect(..., [user])

Pair(u) == {<<"profile", u>>, <<"expenses", u>>}

\* A cleanup that unsubscribes nothing.
CleanupNothing == listeners

\* The cleanup the previous run returned: unsubscribeExpenses(); unsubscribeUser().
Cleanup == listeners \ Pair(subUser)

\* An effect body that resets dbError and forgets indexUrl.
subscriptionEffectKeepsUrl ==
    /\ effectStale
    /\ effectStale' = FALSE
    /\ IF user = NoUser
       THEN /\ listeners' = Cleanup
            /\ subUser' = NoUser
            /\ UNCHANGED <<dbError, indexUrl>>
       ELSE /\ dbError' = Null
            /\ UNCHANGED indexUrl
            /\ listeners' = Cleanup \cup Pair(user)
            /\ subUser' = user
    /\ Did(IF user # NoUser /\ Pair(subUser) \cap listeners # {} /\ subUser # user
           THEN "resubscribed" ELSE "-")
    /\ UNCHANGED <<variant, view, user, expenses, budget, editingExpense, loading,
                   authUser, inflight, store, now>>
    /\ FormFollows

\* Cleanup of the previous run, then the effect body.
subscriptionEffect ==
    /\ effectStale
    /\ effectStale' = FALSE
    /\ IF user = NoUser
       THEN /\ listeners' = Cleanup
            /\ subUser' = NoUser
            /\ UNCHANGED <<dbError, indexUrl>>
       ELSE /\ dbError' = Null
            /\ indexUrl' = Null
            /\ listeners' = Cleanup \cup Pair(user)
            /\ subUser' = user
    /\ Did(IF user # NoUser /\ Pair(subUser) \cap listeners # {} /\ subUser # user
           THEN "resubscribed" ELSE "-")
    /\ UNCHANGED <<variant, view, user, expenses, budget, editingExpense, loading,
                   authUser, inflight, store, now>>
    /\ FormFollows

----------------------------------------------------------------------------
\* snapshot and error callbacks of the two listeners

\* A profile handler that also empties the expense list.
profileSnapshotResets(u) ==
    /\ <<"profile", u>> \in listeners
    /\ budget' = IF profiles[u] # NoDoc /\ "monthlyBudget" \in DOMAIN profiles[u]
                 THEN profiles[u].monthlyBudget
                 ELSE budget
    /\ expenses' = <<>>
    /\ Quiet
    /\ UNCHANGED <<variant, view, user, editingExpense, loading, dbError,
                   indexUrl, authUser, subs, inflight, store, now>>
    /\ FormFollows

\* Profile listener: setBudget only when the document exists and has the field.
profileSnapshot(u) ==
    /\ <<"profile", u>> \in listeners
    /\ budget' = IF profiles[u] # NoDoc /\ "monthlyBudget" \in DOMAIN profiles[u]
                 THEN profiles[u].monthlyBudget
                 ELSE budget
    /\ Quiet
    /\ UNCHANGED <<variant, view, user, expenses, editingExpense, loading, dbError,
                   indexUrl, authUser, subs, inflight, store, now>>
    /\ FormFollows

\* The profile listener is registered without an error callback: an error ends
\* the listener and reaches no controller state.
profileError(u, error) ==
    /\ <<"profile", u>> \in listeners
    /\ listeners' = listeners \ {<<"profile", u>>}
    /\ Quiet
    /\ UNCHANGED <<variant, ctl, authUser, effectStale, subUser, inflight, store, now>>
    /\ FormFollows

\* What data.timestamp of a stored document can be: a number (milliseconds, the
\* only form handleAddExpense writes), a Timestamp object (it has `seconds`), a
\* text of an earlier format, or null.
Millis(n) == [number |-> n]
Seconds(n) == [seconds |-> n]
Text(t) == [text |-> t]
NullTs == [null |-> TRUE]
IsNumber(ts) == "number" \in DOMAIN ts
HasSeconds(ts) == "seconds" \in DOMAIN ts
IsString(ts) == "text" \in DOMAIN ts

\* Texts of stored timestamps, as tokens: "d0" and "d1" are the digits of a date
\* and time (the instants 0 and 1), "日" the day mark that follows them in the
\* earlier format, "[" opens a zone note, "x" is anything else.  Listed in the
\* order the store compares strings.
TextOrder == << <<>>, <<"d0">>, <<"d1", "[", "x">>, <<"d1", "日">>, <<"x">> >>
Texts == {TextOrder[i] : i \in 1..Len(TextOrder)}
TextRank(t) == CHOOSE i \in 1..Len(TextOrder) : TextOrder[i] = t

\* ts.replace(/日/g, '')
RECURSIVE DropDay(_)
DropDay(t) ==
    IF t = <<>> THEN <<>>
    ELSE IF Head(t) = "日" THEN DropDay(Tail(t))
    ELSE <<Head(t)>> \o DropDay(Tail(t))

\* .split('[')[0]
RECURSIVE BeforeBracket(_)
BeforeBracket(t) ==
    IF t = <<>> \/ Head(t) = "[" THEN <<>>
    ELSE <<Head(t)>> \o BeforeBracket(Tail(t))

\* new Date(normalized).getTime(): the instant of a date and time, NaN (no
\* instant; here a number below every instant) otherwise.
NaN == -1
DateParse(t) ==
    IF t = <<"d0">> THEN 0 ELSE IF t = <<"d1">> THEN 1 ELSE NaN

\* Milliseconds in a second.
MsPerSecond == 1000

\* A handler that takes the seconds of a Timestamp object for milliseconds.
NormalizedSeconds(ts) ==
    IF IsNumber(ts) THEN ts.number
    ELSE IF HasSeconds(ts) THEN ts.seconds
    ELSE now

\* The ts the snapshot handler computes from data.timestamp.  Only variant 2
\* reads texts; a Timestamp object always has `seconds`, so the toDate branch
\* is never the one taken.
Normalized(ts) ==
    IF IsNumber(ts) THEN ts.number
    ELSE IF HasSeconds(ts) THEN ts.seconds * MsPerSecond
    ELSE IF IsString(ts) /\ variant = 2
         THEN LET parsed == DateParse(BeforeBracket(DropDay(ts.text)))
              IN  IF parsed = NaN THEN now ELSE parsed
    ELSE now

\* query(users/{u}/expenses, orderBy('timestamp', 'desc')): the documents of u
\* in the store's descending order: texts, then Timestamp objects, then
\* numbers, then null, each kind by its value, equal values by key.
DocsOf(u) == {d \in expenseDocs : d.uid = u}
KindRank(ts) == IF IsString(ts) THEN 3 ELSE IF HasSeconds(ts) THEN 2
                ELSE IF IsNumber(ts) THEN 1 ELSE 0
ValueRank(ts) == IF IsString(ts) THEN TextRank(ts.text)
                 ELSE IF HasSeconds(ts) THEN ts.seconds
                 ELSE IF IsNumber(ts) THEN ts.number ELSE 0
Later(d, e) ==
    LET a == d.data.timestamp
        b == e.data.timestamp
    IN  \/ KindRank(a) > KindRank(b)
        \/ KindRank(a) = KindRank(b) /\ ValueRank(a) > ValueRank(b)
        \/ KindRank(a) = KindRank(b) /\ ValueRank(a) = ValueRank(b) /\ d.key > e.key
RECURSIVE Ordered(_)
Ordered(ds) ==
    IF ds = {} THEN <<>>
    ELSE LET top == CHOOSE d \in ds : \A e \in ds \ {d} : Later(d, e)
         IN  <<top>> \o Ordered(ds \ {top})

\* A handler that stamps every record with the time of the delivery.
ToExpenseNow(d) ==
    [id |-> d.key, userId |-> d.data.userId, amount |-> d.data.amount,
     item |-> d.data.item, description |-> d.data.description,
     timestamp |-> now]

\* The record the snapshot handler builds from one document:
\* {...data, id: fbDoc.id, item: data.item || OTHER, timestamp: ts}.
ToExpense(d) ==
    [id |-> d.key, userId |-> d.data.userId, amount |-> d.data.amount,
     item |-> d.data.item, description |-> d.data.description,
     timestamp |-> Normalized(d.data.timestamp)]

\* [...expenseData].sort((a, b) => b.timestamp - a.timestamp) of variant 2: a
\* stable insertion of each record before the first one with a smaller timestamp.
RECURSIVE SortDesc(_)
SortDesc(s) ==
    IF Len(s) <= 1 THEN s
    ELSE LET rest == SortDesc(Tail(s))
             x == Head(s)
             k == Cardinality({i \in 1..Len(rest) : rest[i].timestamp > x.timestamp})
         IN  SubSeq(rest, 1, k) \o <<x>> \o SubSeq(rest, k + 1, Len(rest))

SnapshotExpenses(u) ==
    LET docs == Ordered(DocsOf(u))
        expenseData == [i \in 1..Len(docs) |-> ToExpense(docs[i])]
    IN  IF variant = 2 THEN SortDesc(expenseData) ELSE expenseData

expensesSnapshot(u) ==
    /\ <<"expenses", u>> \in listeners
    /\ Quiet
    /\ UNCHANGED <<variant, view, user, budget, editingExpense, loading, dbError,
                   indexUrl, authUser, subs, inflight, store, now>>
    /\ FormFollows
    /\ expenses' = SnapshotExpenses(u)

\* An error of a listener: [code, message].  Errors are three errors the store
\* sends: a missing index (the message names the console URL), a refused read,
\* and an outage.
Errors == {[code |-> "failed-precondition",
            message |-> <<"x", Space>> \o IndexUrl \o <<Space, "x">>],
           [code |-> "permission-denied", message |-> <<"x">>],
           [code |-> "unavailable", message |-> ErrMessage]}

\* Every error: a code of the store and a message of up to MaxMessage characters.
ErrorKinds == {"failed-precondition", "permission-denied", "unavailable"}
Messages == UNION {[1..n -> Chars] : n \in 0..MaxMessage}
StoreErrors == [code : ErrorKinds, message : Messages]

\* error.message.includes('https://console.firebase.google.com')
Includes(message) == \E i \in 1..Len(message) : message[i] = UrlPrefix

\* The whole message in place of the match.
UrlMatchWhole(message) == message

\* error.message.match(/https:\/\/console\.firebase\.google\.com[^\s]*/)[0]: the
\* scan starts at the leftmost occurrence of the prefix and [^\s]* takes every
\* character up to the next whitespace or the end of the text.
RECURSIVE NonSpaceRun(_)
NonSpaceRun(text) ==
    IF text = <<>> \/ Head(text) = Space THEN <<>>
    ELSE <<Head(text)>> \o NonSpaceRun(Tail(text))
RECURSIVE UrlMatch(_)
UrlMatch(message) ==
    IF Head(message) = UrlPrefix
    THEN <<UrlPrefix>> \o NonSpaceRun(Tail(message))
    ELSE UrlMatch(Tail(message))

expensesError(u, error) ==
    /\ <<"expenses", u>> \in listeners
    /\ listeners' = listeners \ {<<"expenses", u>>}
    /\ IF Includes(error.message)
       THEN /\ indexUrl' = UrlMatch(error.message)
            /\ dbError' = IndexRequired
       ELSE /\ dbError' = IF error.code = "permission-denied"
                          THEN PermissionDenied ELSE error.message
            /\ UNCHANGED indexUrl
    /\ Quiet
    /\ UNCHANGED <<variant, view, user, expenses, budget, editingExpense, loading,
                   authUser, effectStale, subUser, inflight, store, now>>
    /\ FormFollows

----------------------------------------------------------------------------
\* handleLogin, handleLogout

\* The inputs of the forms: (amount, item, description) and the new budget.
AddInputs == {<<100, "FOOD", "lunch">>}
EditInputs == {<<250, "OTHER", "taxi">>}
Budgets == {DefaultBudget, 5000}

\* handleLogin's setView.
loginView == IF variant = 2 THEN "DASHBOARD" ELSE "WELCOME"

\* What a call of the provider is rejected with: [code, message]; the message
\* of an error may be empty.
AuthErrors == {[code |-> "auth/invalid-credential", message |-> "invalid"],
               [code |-> "auth/unauthorized-domain", message |-> "unauthorized-domain"],
               [code |-> "auth/network-request-failed", message |-> ""]}

\* err.message || err.code
MessageOrCode(err) == IF err.message # "" THEN err.message ELSE err.code

\* err.code === 'auth/unauthorized-domain' || err.message.includes('unauthorized-domain')
IsUnauthorized(err) ==
    err.code = "auth/unauthorized-domain" \/ err.message = "unauthorized-domain"

\* The calls Login awaits besides signInWithEmailAndPassword.
RedirectResultOp == [op |-> "getRedirectResult"]
RedirectOp == [op |-> "signInWithRedirect"]
ResetOp == [op |-> "sendPasswordResetEmail"]

\* Login's mount effect starts handleRedirectResult; variant 2 hands Login a new
\* onLogin at every render of App, which runs the effect again.
handleRedirectResult ==
    /\ form.mounted /\ RedirectResultOp \notin form.awaits
    /\ ~form.checked \/ variant = 2
    /\ HasRoom
    /\ form' = [form EXCEPT !.checked = TRUE, !.awaits = @ \cup {RedirectResultOp}]
    /\ inflight' = inflight (+) One(RedirectResultOp)
    /\ Quiet
    /\ UNCHANGED <<variant, ctl, authUser, subs, store, now>>

\* getRedirectResult resolved: with a result Login calls onLogin = handleLogin,
\* with none it does nothing.
redirectResultResolved(o, result) ==
    /\ o \in Pending /\ o.op = "getRedirectResult"
    /\ inflight' = inflight (-) One(o)
    /\ IF result # NoUser
       THEN /\ user' = result
            /\ view' = loginView
            /\ effectStale' = TRUE
            /\ form' = Unmounted
       ELSE /\ UNCHANGED <<user, view, effectStale>>
            /\ form' = [form EXCEPT !.awaits = @ \ {o}]
    /\ Quiet
    /\ UNCHANGED <<variant, expenses, budget, editingExpense, loading, dbError,
                   indexUrl, authUser, subUser, listeners, store, now>>

\* getRedirectResult threw: the catch sets the message and leaves Login's
\* loading alone.  A Login that is gone by then has no state to set.
redirectResultRejected(o, err) ==
    /\ o \in Pending /\ o.op = "getRedirectResult"
    /\ inflight' = inflight (-) One(o)
    /\ form' = IF o \in form.awaits
               THEN IF IsUnauthorized(err)
                    THEN [form EXCEPT !.isUnauthorizedDomain = TRUE,
                                      !.error = <<"domain not authorized">>,
                                      !.awaits = @ \ {o}]
                    ELSE [form EXCEPT !.error = <<"Google login failed: ", MessageOrCode(err)>>,
                                      !.awaits = @ \ {o}]
               ELSE form
    /\ Quiet
    /\ UNCHANGED <<variant, ctl, authUser, subs, store, now>>

\* Login.handleSubmit with the email or the password missing.
loginSubmitEmpty ==
    /\ form.mounted /\ ~form.loading
    /\ form' = [form EXCEPT !.error = <<"enter email and password">>]
    /\ Quiet
    /\ UNCHANGED <<variant, ctl, authUser, subs, inflight, store, now>>

\* Login.handleSubmit / Register: the credentials go to the provider.  Login's
\* loading overlay and disabled buttons take no event while a call is pending.
loginSubmit(u) ==
    /\ HasRoom
    /\ IF view = "REGISTER"
       THEN /\ Shows("REGISTER")
            /\ UNCHANGED form
       ELSE /\ form.mounted /\ ~form.loading
            /\ form' = [form EXCEPT !.loading = TRUE, !.error = <<>>, !.success = <<>>,
                                    !.isUnauthorizedDomain = FALSE,
                                    !.awaits = @ \cup {[op |-> "signIn", uid |-> u]}]
    /\ inflight' = inflight (+) One([op |-> "signIn", uid |-> u])
    /\ Quiet
    /\ UNCHANGED <<variant, ctl, authUser, subs, store, now>>

\* signInWithEmailAndPassword resolved.  The provider reports the identity (the
\* callback runs to its first await, unless this identity was the one last
\* reported) and the form calls onLogin = handleLogin: setUser; setView.
signInResolved(o) ==
    /\ o \in Pending /\ o.op = "signIn"
    /\ authUser' = o.uid
    /\ inflight' = IF authUser # o.uid
                   THEN (inflight (-) One(o)) (+) One([op |-> "getDoc", uid |-> o.uid])
                   ELSE inflight (-) One(o)
    /\ user' = o.uid
    /\ view' = loginView
    /\ effectStale' = TRUE
    /\ Quiet
    /\ UNCHANGED <<variant, expenses, budget, editingExpense, loading, dbError,
                   indexUrl, subUser, listeners, store, now>>
    /\ FormFollows

\* A catch that sets the message and leaves the loading overlay up.
signInRejectedBusy(o, err) ==
    /\ o \in Pending /\ o.op = "signIn"
    /\ inflight' = inflight (-) One(o)
    /\ form' = IF o \in form.awaits
               THEN [form EXCEPT !.error = <<"login error: ", MessageOrCode(err)>>,
                                 !.awaits = @ \ {o}]
               ELSE form
    /\ Quiet
    /\ UNCHANGED <<variant, ctl, authUser, subs, store, now>>

\* The sign-in failed: onLogin is not called, the catch sets the message and
\* takes Login's loading back.
signInRejected(o, err) ==
    /\ o \in Pending /\ o.op = "signIn"
    /\ inflight' = inflight (-) One(o)
    /\ form' = IF o \in form.awaits
               THEN [form EXCEPT
                       !.error = IF err.code = "auth/invalid-credential"
                                 THEN <<"wrong account or password">>
                                 ELSE IF err.code = "auth/unauthorized-domain"
                                      THEN <<"domain not authorized">>
                                      ELSE <<"login error: ", MessageOrCode(err)>>,
                       !.isUnauthorizedDomain = (err.code = "auth/unauthorized-domain"),
                       !.loading = FALSE,
                       !.awaits = @ \ {o}]
               ELSE form
    /\ Quiet
    /\ UNCHANGED <<variant, ctl, authUser, subs, store, now>>

\* Login.handleGoogleLogin up to await signInWithRedirect.
handleGoogleLogin ==
    /\ form.mounted /\ ~form.loading
    /\ HasRoom
    /\ form' = [form EXCEPT !.loading = TRUE, !.error = <<>>, !.success = <<>>,
                            !.isUnauthorizedDomain = FALSE,
                            !.awaits = @ \cup {RedirectOp}]
    /\ inflight' = inflight (+) One(RedirectOp)
    /\ Quiet
    /\ UNCHANGED <<variant, ctl, authUser, subs, store, now>>

\* signInWithRedirect went through: the browser leaves for the provider and the
\* page is loaded anew on return; what the store holds stays.
redirected(o) ==
    /\ o \in Pending /\ o.op = "signInWithRedirect"
    /\ view' = "LOGIN" /\ user' = NoUser /\ expenses' = <<>>
    /\ budget' = DefaultBudget /\ editingExpense' = NoExpense
    /\ loading' = TRUE /\ dbError' = Null /\ indexUrl' = Null
    /\ authUser' = "unset"
    /\ effectStale' = FALSE /\ subUser' = NoUser /\ listeners' = {}
    /\ inflight' = EmptyBag
    /\ form' = Unmounted
    /\ Did("reload")
    /\ UNCHANGED <<variant, store, now>>

\* signInWithRedirect threw.
redirectRejected(o, err) ==
    /\ o \in Pending /\ o.op = "signInWithRedirect"
    /\ inflight' = inflight (-) One(o)
    /\ form' = IF o \in form.awaits
               THEN IF IsUnauthorized(err)
                    THEN [form EXCEPT !.isUnauthorizedDomain = TRUE,
                                      !.error = <<"domain not authorized">>,
                                      !.loading = FALSE, !.awaits = @ \ {o}]
                    ELSE [form EXCEPT !.error = <<"cannot start Google login: ", err.message>>,
                                      !.loading = FALSE, !.awaits = @ \ {o}]
               ELSE form
    /\ Quiet
    /\ UNCHANGED <<variant, ctl, authUser, subs, store, now>>

\* Login.handleForgotPassword with no email.
forgotPasswordEmpty ==
    /\ form.mounted /\ ~form.loading
    /\ form' = [form EXCEPT !.error = <<"enter your email first">>]
    /\ Quiet
    /\ UNCHANGED <<variant, ctl, authUser, subs, inflight, store, now>>

\* Login.handleForgotPassword up to await sendPasswordResetEmail.
handleForgotPassword ==
    /\ form.mounted /\ ~form.loading
    /\ HasRoom
    /\ form' = [form EXCEPT !.loading = TRUE, !.error = <<>>,
                            !.awaits = @ \cup {ResetOp}]
    /\ inflight' = inflight (+) One(ResetOp)
    /\ Quiet
    /\ UNCHANGED <<variant, ctl, authUser, subs, store, now>>

\* sendPasswordResetEmail resolved: the success message, then the finally.
resetResolved(o) ==
    /\ o \in Pending /\ o.op = "sendPasswordResetEmail"
    /\ inflight' = inflight (-) One(o)
    /\ form' = IF o \in form.awaits
               THEN [form EXCEPT !.success = <<"reset mail sent">>,
                                 !.loading = FALSE, !.awaits = @ \ {o}]
               ELSE form
    /\ Quiet
    /\ UNCHANGED <<variant, ctl, authUser, subs, store, now>>

\* sendPasswordResetEmail threw: the message, then the finally.
resetRejected(o, err) ==
    /\ o \in Pending /\ o.op = "sendPasswordResetEmail"
    /\ inflight' = inflight (-) One(o)
    /\ form' = IF o \in form.awaits
               THEN [form EXCEPT !.error = <<"password reset failed: ", err.message>>,
                                 !.loading = FALSE, !.awaits = @ \ {o}]
               ELSE form
    /\ Quiet
    /\ UNCHANGED <<variant, ctl, authUser, subs, store, now>>

\* handleLogout up to await signOut(auth); Layout offers it to a signed-in user.
handleLogout ==
    /\ ~loading /\ user # NoUser
    /\ HasRoom
    /\ loading' = (variant \in {0, 1})
    /\ inflight' = inflight (+) One([op |-> "signOut"])
    /\ Quiet
    /\ UNCHANGED <<variant, view, user, expenses, budget, editingExpense, dbError,
                   indexUrl, authUser, subs, store, now>>
    /\ FormFollows

\* signOut resolved.  The provider reports "no identity" (signed-out branch of the
\* callback) unless that is what it last reported; variant 2 then clears the
\* session itself, variants 0 and 1 leave it to the callback.
signOutResolved(o) ==
    /\ o \in Pending /\ o.op = "signOut"
    /\ inflight' = inflight (-) One(o)
    /\ authUser' = NoUser
    /\ IF authUser # NoUser \/ variant = 2
       THEN /\ user' = NoUser
            /\ expenses' = <<>>
            /\ view' = "LOGIN"
            /\ effectStale' = (effectStale \/ user # NoUser)
       ELSE UNCHANGED <<user, expenses, view, effectStale>>
    /\ loading' = IF authUser # NoUser THEN FALSE ELSE loading
    /\ Quiet
    /\ UNCHANGED <<variant, budget, editingExpense, dbError, indexUrl,
                   subUser, listeners, store, now>>
    /\ FormFollows

\* A catch that only logs.
signOutRejectedBusy(o) ==
    /\ o \in Pending /\ o.op = "signOut"
    /\ inflight' = inflight (-) One(o)
    /\ Did("signOutFailed")
    /\ UNCHANGED <<variant, ctl, authUser, subs, store, now>>
    /\ FormFollows

\* signOut threw: variants 0 and 1 take the loading flag back.
signOutRejected(o) ==
    /\ o \in Pending /\ o.op = "signOut"
    /\ inflight' = inflight (-) One(o)
    /\ loading' = IF variant \in {0, 1} THEN FALSE ELSE loading
    /\ Did("signOutFailed")
    /\ UNCHANGED <<variant, view, user, expenses, budget, editingExpense, dbError,
                   indexUrl, authUser, subs, store, now>>
    /\ FormFollows

----------------------------------------------------------------------------
\* the screens' inline callbacks and startEdit

\* Welcome's onConfirm.
onConfirm ==
    /\ variant \in {0, 1}
    /\ Shows("WELCOME")
    /\ view' = "DASHBOARD"
    /\ Quiet
    /\ UNCHANGED <<variant, user, expenses, budget, editingExpense, loading, dbError,
                   indexUrl, authUser, subs, inflight, store, now>>
    /\ FormFollows

\* Dashboard's onNavigateToAdd.
onNavigateToAdd ==
    /\ Shows("DASHBOARD")
    /\ view' = "ADD_EXPENSE"
    /\ Quiet
    /\ UNCHANGED <<variant, user, expenses, budget, editingExpense, loading, dbError,
                   indexUrl, authUser, subs, inflight, store, now>>
    /\ FormFollows

\* An onEdit that leaves a record already being edited in place.
startEditIfIdle(expense) ==
    /\ Shows("DASHBOARD")
    /\ editingExpense' = IF editingExpense = NoExpense THEN expense ELSE editingExpense
    /\ view' = "EDIT_EXPENSE"
    /\ IF editingExpense = NoExpense THEN Quiet ELSE Did("startEditAgain")
    /\ UNCHANGED <<variant, user, expenses, budget, loading, dbError, indexUrl,
                   authUser, subs, inflight, store, now>>
    /\ FormFollows

\* Dashboard's onEdit, with one of the records it lists.  Dashboard is the only
\* screen that is handed startEdit, so it is called while Dashboard is mounted;
\* the handler itself reads neither view nor editingExpense.
startEdit(expense) ==
    /\ Shows("DASHBOARD")
    /\ editingExpense' = expense
    /\ view' = "EDIT_EXPENSE"
    /\ IF editingExpense = NoExpense THEN Quiet ELSE Did("startEditAgain")
    /\ UNCHANGED <<variant, user, expenses, budget, loading, dbError, indexUrl,
                   authUser, subs, inflight, store, now>>
    /\ FormFollows

\* A mutation handler that returned at its guard (no user, or nothing edited).
Returned ==
    /\ Did("returned")
    /\ UNCHANGED <<variant, ctl, authUser, subs, inflight, store, now>>
    /\ FormFollows

----------------------------------------------------------------------------
\* handleUpdateBudget

handleUpdateBudget(newBudget) ==
    /\ Shows("REPORT")
    /\ IF user = NoUser
       THEN Returned
       ELSE /\ HasRoom
            /\ inflight' = inflight (+)
                   One([op |-> "updateBudget", uid |-> user, value |-> newBudget])
            /\ Quiet
            /\ UNCHANGED <<variant, ctl, authUser, subs, store, now>>
            /\ FormFollows

\* updateDoc(userDocRef, {monthlyBudget}) resolved; then setBudget(newBudget).
SetBudgetField(d, v) == [f \in DOMAIN d \cup {"monthlyBudget"} |->
                            IF f = "monthlyBudget" THEN v ELSE d[f]]

updateBudgetResolved(o) ==
    /\ o \in Pending /\ o.op = "updateBudget"
    /\ profiles[o.uid] # NoDoc
    /\ profiles' = [profiles EXCEPT ![o.uid] = SetBudgetField(@, o.value)]
    /\ budget' = o.value
    /\ inflight' = inflight (-) One(o)
    /\ Quiet
    /\ UNCHANGED <<variant, view, user, expenses, editingExpense, loading, dbError,
                   indexUrl, authUser, subs, expenseDocs, nextKey, now>>
    /\ FormFollows

\* updateDoc threw: 'not-found' when there is no profile document, any other code
\* at any time.  Variants 0 and 1 log; variant 2 also upserts on 'not-found'.
ErrorCodes(uid) == IF profiles[uid] = NoDoc THEN {"not-found", "unavailable"}
                   ELSE {"unavailable"}

updateBudgetRejected(o, code) ==
    /\ o \in Pending /\ o.op = "updateBudget"
    /\ code \in ErrorCodes(o.uid)
    /\ inflight' = IF variant = 2 /\ code = "not-found"
                   THEN (inflight (-) One(o)) (+)
                        One([op |-> "mergeBudget", uid |-> o.uid, value |-> o.value])
                   ELSE inflight (-) One(o)
    /\ Did("updateBudgetFailed")
    /\ UNCHANGED <<variant, ctl, authUser, subs, store, now>>
    /\ FormFollows

\* setDoc(users/{uid}, {monthlyBudget, email}, {merge: true}) of variant 2 resolved.
MergeBudget(d, v) == IF d = NoDoc THEN [monthlyBudget |-> v] ELSE SetBudgetField(d, v)

mergeBudgetResolved(o) ==
    /\ o \in Pending /\ o.op = "mergeBudget"
    /\ profiles' = [profiles EXCEPT ![o.uid] = MergeBudget(@, o.value)]
    /\ inflight' = inflight (-) One(o)
    /\ Quiet
    /\ UNCHANGED <<variant, ctl, authUser, subs, expenseDocs, nextKey, now>>
    /\ FormFollows

mergeBudgetRejected(o) ==
    /\ o \in Pending /\ o.op = "mergeBudget"
    /\ inflight' = inflight (-) One(o)
    /\ Quiet
    /\ UNCHANGED <<variant, ctl, authUser, subs, store, now>>
    /\ FormFollows

----------------------------------------------------------------------------
\* handleAddExpense, handleUpdateExpense, handleDeleteExpense

\* ExpenseForm.handleSave forwards (amount, item, description) to onSave.
handleAddExpense(in) ==
    /\ Shows("ADD_EXPENSE")
    /\ IF user = NoUser
       THEN Returned
       ELSE /\ HasRoom
            /\ nextKey <= MaxDocs
            /\ nextKey' = nextKey + 1
            /\ inflight' = inflight (+)
                   One([op |-> "addExpense", uid |-> user, key |-> nextKey,
                        data |-> [id |-> nextKey, userId |-> user, amount |-> in[1],
                                  item |-> in[2], description |-> in[3],
                                  timestamp |-> Millis(now)]])
            /\ Quiet
            /\ UNCHANGED <<variant, ctl, authUser, subs, profiles, expenseDocs, now>>
            /\ FormFollows

\* The write lands and the form stays open.
addExpenseResolvedStays(o) ==
    /\ o \in Pending /\ o.op = "addExpense"
    /\ expenseDocs' = {d \in expenseDocs : ~(d.uid = o.uid /\ d.key = o.key)}
                        \cup {[uid |-> o.uid, key |-> o.key, data |-> o.data]}
    /\ inflight' = inflight (-) One(o)
    /\ Quiet
    /\ UNCHANGED <<variant, ctl, authUser, subs, profiles, nextKey, now>>
    /\ FormFollows

\* setDoc(newExpenseRef, {...}) resolved; then setView('DASHBOARD').
addExpenseResolved(o) ==
    /\ o \in Pending /\ o.op = "addExpense"
    /\ expenseDocs' = {d \in expenseDocs : ~(d.uid = o.uid /\ d.key = o.key)}
                        \cup {[uid |-> o.uid, key |-> o.key, data |-> o.data]}
    /\ view' = "DASHBOARD"
    /\ inflight' = inflight (-) One(o)
    /\ Quiet
    /\ UNCHANGED <<variant, user, expenses, budget, editingExpense, loading, dbError,
                   indexUrl, authUser, subs, profiles, nextKey, now>>
    /\ FormFollows

\* A catch block that navigates as if the write had gone through.
mutationRejectedNavigates(o) ==
    /\ o \in Pending /\ o.op \in {"addExpense", "updateExpense", "deleteExpense"}
    /\ inflight' = inflight (-) One(o)
    /\ view' = "DASHBOARD"
    /\ Did(CASE o.op = "addExpense" -> "addExpenseFailed"
             [] o.op = "updateExpense" -> "updateExpenseFailed"
             [] o.op = "deleteExpense" -> "deleteExpenseFailed")
    /\ UNCHANGED <<variant, user, expenses, budget, editingExpense, loading, dbError,
                   indexUrl, authUser, subs, store, now>>
    /\ FormFollows

\* The write threw: alert only.
mutationRejected(o) ==
    /\ o \in Pending /\ o.op \in {"addExpense", "updateExpense", "deleteExpense"}
    /\ inflight' = inflight (-) One(o)
    /\ Did(CASE o.op = "addExpense" -> "addExpenseFailed"
             [] o.op = "updateExpense" -> "updateExpenseFailed"
             [] o.op = "deleteExpense" -> "deleteExpenseFailed")
    /\ UNCHANGED <<variant, ctl, authUser, subs, store, now>>
    /\ FormFollows

\* The edit form is mounted: variant 0 renders it only with a record to edit.
ShowsEditForm ==
    /\ Shows("EDIT_EXPENSE")
    /\ variant = 0 => editingExpense # NoExpense

handleUpdateExpense(in) ==
    /\ ShowsEditForm
    /\ IF user = NoUser \/ editingExpense = NoExpense
       THEN Returned
       ELSE /\ HasRoom
            /\ inflight' = inflight (+)
                   One([op |-> "updateExpense", uid |-> user, key |-> editingExpense.id,
                        data |-> [amount |-> in[1], item |-> in[2],
                                  description |-> in[3], userId |-> user]])
            /\ Quiet
            /\ UNCHANGED <<variant, ctl, authUser, subs, store, now>>
            /\ FormFollows

\* What the user has typed into ExpenseForm's amount field, as characters, and
\* into its description field.
AmountTexts == {<<>>, <<"x">>, <<"0">>, <<"-", "1">>, <<"1">>, <<"1", "0">>,
                <<"1", "x">>, <<"x", "1">>}
Descriptions == {"", "lunch"}

Digits == <<"0", "1", "2", "3", "4", "5", "6", "7", "8", "9">>
IsDigit(c) == \E i \in 1..Len(Digits) : Digits[i] = c
DigitValue(c) == (CHOOSE i \in 1..Len(Digits) : Digits[i] = c) - 1

\* The digits a text begins with.
RECURSIVE LeadingDigits(_)
LeadingDigits(t) ==
    IF t = <<>> \/ ~IsDigit(Head(t)) THEN <<>>
    ELSE <<Head(t)>> \o LeadingDigits(Tail(t))

\* The number a sequence of digits denotes.
RECURSIVE Decimal(_)
Decimal(ds) ==
    IF ds = <<>> THEN 0
    ELSE 10 * Decimal(SubSeq(ds, 1, Len(ds) - 1)) + DigitValue(ds[Len(ds)])

\* parseFloat on texts of a sign and digits: the longest numeric prefix, read as
\* <<number>>, or NaN, read as <<>>, when the text does not begin with a number.
ParseFloat(t) ==
    LET negative == t # <<>> /\ Head(t) = "-"
        ds == LeadingDigits(IF negative THEN Tail(t) ELSE t)
    IN  IF ds = <<>> THEN <<>>
        ELSE <<IF negative THEN 0 - Decimal(ds) ELSE Decimal(ds)>>

\* A check that lets every number through.
IsNumberAndText(numAmount, description) ==
    numAmount # <<>> /\ description # ""

\* !isNaN(numAmount) && numAmount > 0 && description
IsComplete(numAmount, description) ==
    numAmount # <<>> /\ numAmount[1] > 0 /\ description # ""

\* ExpenseForm.handleSave: onSave is handleAddExpense on the add screen and
\* handleUpdateExpense on the edit screen; otherwise the alert.
handleSave(amount, item, description) ==
    LET numAmount == ParseFloat(amount)
    IN  IF IsComplete(numAmount, description)
        THEN \/ handleAddExpense(<<numAmount[1], item, description>>)
             \/ handleUpdateExpense(<<numAmount[1], item, description>>)
        ELSE /\ Shows("ADD_EXPENSE") \/ ShowsEditForm
             /\ Did("alert")
             /\ UNCHANGED <<variant, ctl, authUser, subs, inflight, store, now>>
             /\ FormFollows

\* An update that stamps the record again.
UpdateFieldsStamped(data, fields) ==
    [f \in DOMAIN data \cup DOMAIN fields |->
        IF f = "timestamp" THEN Millis(data[f].number + 1)
        ELSE IF f \in DOMAIN fields THEN fields[f] ELSE data[f]]

\* updateDoc(expenseRef, {amount, item, description, userId}) resolved (the
\* document exists); then setEditingExpense(null); setView('DASHBOARD').
UpdateFields(data, fields) == [f \in DOMAIN data \cup DOMAIN fields |->
                                 IF f \in DOMAIN fields THEN fields[f] ELSE data[f]]

updateExpenseResolved(o) ==
    /\ o \in Pending /\ o.op = "updateExpense"
    /\ \E d \in expenseDocs :
          /\ d.uid = o.uid /\ d.key = o.key
          /\ expenseDocs' = (expenseDocs \ {d})
                              \cup {[d EXCEPT !.data = UpdateFields(@, o.data)]}
    /\ editingExpense' = NoExpense
    /\ view' = "DASHBOARD"
    /\ inflight' = inflight (-) One(o)
    /\ Quiet
    /\ UNCHANGED <<variant, user, expenses, budget, loading, dbError, indexUrl,
                   authUser, subs, profiles, nextKey, now>>
    /\ FormFollows

\* A handler without the guard on user.
handleDeleteUnguarded(id, confirmed) ==
    /\ Shows("DASHBOARD")
    /\ IF ~confirmed
       THEN /\ Did("deleteDeclined")
            /\ UNCHANGED <<variant, ctl, authUser, subs, inflight, store, now>>
            /\ FormFollows
       ELSE /\ HasRoom
            /\ inflight' = inflight (+)
                   One([op |-> "deleteExpense", uid |-> user, key |-> id])
            /\ Quiet
            /\ UNCHANGED <<variant, ctl, authUser, subs, store, now>>
            /\ FormFollows

\* A handler that issues the delete whatever confirm() answered.
handleDeleteUnasked(id, confirmed) ==
    /\ Shows("DASHBOARD")
    /\ IF user = NoUser
       THEN Returned
       ELSE /\ HasRoom
            /\ inflight' = inflight (+)
                   One([op |-> "deleteExpense", uid |-> user, key |-> id])
            /\ IF confirmed THEN Quiet ELSE Did("deleteDeclined")
            /\ UNCHANGED <<variant, ctl, authUser, subs, store, now>>
            /\ FormFollows

\* Dashboard's onDelete with the id of a listed record; confirm() answers.
handleDeleteExpense(id, confirmed) ==
    /\ Shows("DASHBOARD")
    /\ IF user = NoUser
       THEN Returned
       ELSE IF ~confirmed
            THEN /\ Did("deleteDeclined")
                 /\ UNCHANGED <<variant, ctl, authUser, subs, inflight, store, now>>
                 /\ FormFollows
            ELSE /\ HasRoom
                 /\ inflight' = inflight (+)
                        One([op |-> "deleteExpense", uid |-> user, key |-> id])
                 /\ Quiet
                 /\ UNCHANGED <<variant, ctl, authUser, subs, store, now>>
                 /\ FormFollows

\* A completion that also drops the record from the list it holds.
deleteExpenseResolvedLocally(o) ==
    /\ o \in Pending /\ o.op = "deleteExpense"
    /\ expenseDocs' = {d \in expenseDocs : ~(d.uid = o.uid /\ d.key = o.key)}
    /\ inflight' = inflight (-) One(o)
    /\ expenses' = SelectSeq(expenses, LAMBDA e : e.id # o.key)
    /\ Quiet
    /\ UNCHANGED <<variant, view, user, budget, editingExpense, loading, dbError,
                   indexUrl, authUser, subs, profiles, nextKey, now>>
    /\ FormFollows

\* deleteDoc(expenseRef) resolved.
deleteExpenseResolved(o) ==
    /\ o \in Pending /\ o.op = "deleteExpense"
    /\ expenseDocs' = {d \in expenseDocs : ~(d.uid = o.uid /\ d.key = o.key)}
    /\ inflight' = inflight (-) One(o)
    /\ Quiet
    /\ UNCHANGED <<variant, ctl, authUser, subs, profiles, nextKey, now>>
    /\ FormFollows

ListedIds == {expenses[i].id : i \in 1..Len(expenses)}
Listed == {expenses[i] : i \in 1..Len(expenses)}

----------------------------------------------------------------------------
\* The actions, by what they belong to.

AuthSteps ==
    \/ \E u \in Uids \cup {NoUser} : onAuthStateChanged(u)
    \/ \E o \in Pending : getDocResolved(o)
    \/ \E o \in Pending : getDocRejected(o)
    \/ \E o \in Pending : profileWriteResolved(o)
    \/ \E o \in Pending : profileWriteRejected(o)

LoginSteps ==
    \/ \E u \in Uids : loginSubmit(u)
    \/ \E o \in Pending : signInResolved(o)
    \/ \E o \in Pending, err \in AuthErrors : signInRejected(o, err)
    \/ handleLogout
    \/ \E o \in Pending : signOutResolved(o)
    \/ \E o \in Pending : signOutRejected(o)

NavSteps ==
    \/ \E v \in Views : handleNavigate(v)
    \/ onConfirm
    \/ onNavigateToAdd
    \/ \E e \in Listed : startEdit(e)

\* The same, with handleNavigate called as the screens in src call it: the
\* edit screen is opened by startEdit (Dashboard's onEdit), not by navigation.
ScreenViews == Views \ {"EDIT_EXPENSE"}
ScreenSteps ==
    \/ \E v \in ScreenViews : handleNavigate(v)
    \/ onConfirm
    \/ onNavigateToAdd
    \/ \E e \in Listed : startEdit(e)

SyncSteps ==
    \/ subscriptionEffect
    \/ \E u \in Uids : profileSnapshot(u)
    \/ \E u \in Uids : expensesSnapshot(u)

SyncErrorSteps ==
    \/ \E u \in Uids, e \in Errors : profileError(u, e)
    \/ \E u \in Uids, e \in Errors : expensesError(u, e)

BudgetSteps ==
    \/ \E b \in Budgets : handleUpdateBudget(b)
    \/ \E o \in Pending : updateBudgetResolved(o)
    \/ \E o \in Pending, c \in {"not-found", "unavailable"} : updateBudgetRejected(o, c)
    \/ \E o \in Pending : mergeBudgetResolved(o)
    \/ \E o \in Pending : mergeBudgetRejected(o)

ExpenseSteps ==
    \/ \E in \in AddInputs : handleAddExpense(in)
    \/ \E o \in Pending : addExpenseResolved(o)
    \/ \E in \in EditInputs : handleUpdateExpense(in)
    \/ \E o \in Pending : updateExpenseResolved(o)
    \/ \E id \in ListedIds, c \in BOOLEAN : handleDeleteExpense(id, c)
    \/ \E o \in Pending : deleteExpenseResolved(o)
    \/ \E o \in Pending : mutationRejected(o)

\* The whole program.
Next ==
    \/ Tick
    \/ AuthSteps
    \/ LoginSteps
    \/ NavSteps
    \/ SyncSteps
    \/ SyncErrorSteps
    \/ BudgetSteps
    \/ ExpenseSteps

Spec == Init /\ [][Next]_vars

\* The listeners: every way the user state changes, every callback of a listener.
NextSync == AuthSteps \/ LoginSteps \/ SyncSteps \/ SyncErrorSteps
SpecSync == Init /\ [][NextSync]_vars

\* The profile document: the clock, the profile ensure, the budget update.
NextProfile ==
    \/ Tick
    \/ AuthSteps
    \/ \E v \in {"REPORT"} : handleNavigate(v)
    \/ BudgetSteps
SpecProfile == Init /\ [][NextProfile]_vars

\* One identity's session: its screens, its listeners and its mutations (no
\* awaited call of the identity callback fails, the clock stands still).
NextMutation ==
    \/ \E u \in {"A", NoUser} : onAuthStateChanged(u)
    \/ \E o \in Pending : getDocResolved(o)
    \/ \E o \in Pending : profileWriteResolved(o)
    \/ ScreenSteps
    \/ SyncSteps
    \/ BudgetSteps
    \/ ExpenseSteps
SpecMutation == Init /\ [][NextMutation]_vars

\* The store writes of one identity, each resolving or failing, in a session
\* that stays signed in: the provider reports "no identity" only on a page load
\* without a session.
NextWrite ==
    \/ user = NoUser /\ onAuthStateChanged(NoUser)
    \/ onAuthStateChanged("A")
    \/ \E o \in Pending : getDocResolved(o)
    \/ \E o \in Pending : profileWriteResolved(o)
    \/ \E v \in {"DASHBOARD", "REPORT"} : handleNavigate(v)
    \/ onNavigateToAdd
    \/ \E e \in Listed : startEdit(e)
    \/ subscriptionEffect
    \/ \E u \in Uids : expensesSnapshot(u)
    \/ \E b \in Budgets \ {DefaultBudget} : handleUpdateBudget(b)
    \/ \E o \in Pending : updateBudgetResolved(o)
    \/ \E o \in Pending, c \in {"not-found", "unavailable"} : updateBudgetRejected(o, c)
    \/ \E o \in Pending : mergeBudgetResolved(o)
    \/ \E o \in Pending : mergeBudgetRejected(o)
    \/ ExpenseSteps
SpecWrite == Init /\ [][NextWrite]_vars

\* The expense list of one identity whose session the page load restores and
\* that stays signed in: records added, edited and deleted as time passes, each
\* write resolving or failing.
NextExpense ==
    \/ Tick
    \/ onAuthStateChanged("A")
    \/ \E o \in Pending : getDocResolved(o)
    \/ \E o \in Pending : profileWriteResolved(o)
    \/ handleNavigate("DASHBOARD")
    \/ onNavigateToAdd
    \/ \E e \in Listed : startEdit(e)
    \/ subscriptionEffect
    \/ expensesSnapshot("A")
    \/ ExpenseSteps
SpecExpense == Init /\ [][NextExpense]_vars

\* One identity signs in from the login page and edits its records while the
\* sign-in notification is still being worked through.
NextEdit ==
    \/ user = NoUser /\ onAuthStateChanged(NoUser)
    \/ onAuthStateChanged("A")
    \/ \E o \in Pending : getDocResolved(o)
    \/ \E o \in Pending : profileWriteResolved(o)
    \/ \E v \in {"DASHBOARD", "ADD_EXPENSE"} : handleNavigate(v)
    \/ \E e \in Listed : startEdit(e)
    \/ subscriptionEffect
    \/ expensesSnapshot("A")
    \/ \E in \in AddInputs : handleAddExpense(in)
    \/ \E o \in Pending : addExpenseResolved(o)
    \/ \E in \in EditInputs : handleUpdateExpense(in)
    \/ \E o \in Pending : updateExpenseResolved(o)
SpecEdit == Init /\ [][NextEdit]_vars

\* The budget of one identity: it signs in and out, its profile is ensured, it
\* lowers the budget on the report screen, the profile listener delivers.
NextBudget ==
    \/ \E u \in {"A", NoUser} : onAuthStateChanged(u)
    \/ \E o \in Pending : getDocResolved(o)
    \/ \E o \in Pending : profileWriteResolved(o)
    \/ handleNavigate("REPORT")
    \/ subscriptionEffect
    \/ profileSnapshot("A")
    \/ \E b \in Budgets \ {DefaultBudget} : handleUpdateBudget(b)
    \/ \E o \in Pending : updateBudgetResolved(o)
SpecBudget == Init /\ [][NextBudget]_vars

\* Two identities, one after the other, each with its budget and its records,
\* and the two listeners delivering in any order.
NextSnapshot ==
    \/ inflight = EmptyBag /\ \E u \in Uids \cup {NoUser} : onAuthStateChanged(u)
    \/ \E o \in Pending : getDocResolved(o)
    \/ \E o \in Pending : profileWriteResolved(o)
    \/ \E v \in {"REPORT", "ADD_EXPENSE"} : handleNavigate(v)
    \/ SyncSteps
    \/ \E b \in Budgets \ {DefaultBudget} : handleUpdateBudget(b)
    \/ \E o \in Pending : updateBudgetResolved(o)
    \/ \E in \in AddInputs : handleAddExpense(in)
    \/ \E o \in Pending : addExpenseResolved(o)
SpecSnapshot == Init /\ [][NextSnapshot]_vars

\* A page load over a store that already holds up to two documents of A, written
\* earlier with timestamps of any stored form; A's session is restored and the
\* expense listener delivers as time passes and as A deletes records.
StoredTimestamps ==
    {Millis(n) : n \in Times} \cup {Seconds(n) : n \in Times}
        \cup {Text(t) : t \in Texts} \cup {NullTs}
StoredKeys == {-1, 0}
StoredDoc(k, ts) ==
    [uid |-> "A", key |-> k,
     data |-> [id |-> k, userId |-> "A", amount |-> 100, item |-> "FOOD",
               description |-> "lunch", timestamp |-> ts]]
Stores ==
    {{StoredDoc(k, f[k]) : k \in ks} : ks \in SUBSET StoredKeys,
                                        f \in [StoredKeys -> StoredTimestamps]}
InitStored == Constructed /\ expenseDocs \in Stores
NextStored ==
    \/ Tick
    \/ onAuthStateChanged("A")
    \/ \E o \in Pending : getDocResolved(o)
    \/ \E o \in Pending : profileWriteResolved(o)
    \/ subscriptionEffect
    \/ expensesSnapshot("A")
    \/ \E id \in ListedIds : handleDeleteExpense(id, TRUE)
    \/ \E o \in Pending : deleteExpenseResolved(o)
SpecStored == InitStored /\ [][NextStored]_vars

\* A session from the login form to the sign-out: the page load with nobody
\* signed in, the form's sign-in, the provider's notification of the identity
\* (which may reach the callback before the form's promise is settled), the
\* callback's continuation, Welcome's confirmation and the sign-out.
NextWelcome ==
    \/ authUser = "unset" /\ onAuthStateChanged(NoUser)
    \/ onAuthStateChanged("A")
    \/ \E o \in Pending : getDocResolved(o)
    \/ \E o \in Pending : profileWriteResolved(o)
    \/ loginSubmit("A")
    \/ \E o \in Pending : signInResolved(o)
    \/ \E o \in Pending : signInRejected(o, CHOOSE err \in AuthErrors : TRUE)
    \/ onConfirm
    \/ handleLogout
    \/ \E o \in Pending : signOutResolved(o)
SpecWelcome == Init /\ [][NextWelcome]_vars

\* One session and the errors of its expense listener: the sign-in from the login
\* form, the provider's notification, the subscription effect, snapshots, errors
\* and navigation.
NextPersist ==
    \/ authUser = "unset" /\ onAuthStateChanged(NoUser)
    \/ onAuthStateChanged("A")
    \/ \E o \in Pending : getDocResolved(o)
    \/ \E o \in Pending : profileWriteResolved(o)
    \/ loginSubmit("A")
    \/ \E o \in Pending : signInResolved(o)
    \/ subscriptionEffect
    \/ expensesSnapshot("A")
    \/ \E e \in StoreErrors : expensesError("A", e)
    \/ onConfirm
    \/ handleNavigate("REPORT")
SpecPersist == Init /\ [][NextPersist]_vars

\* One identity fills in the expense form, on the add screen and on the edit
\* screen, with every text the form can hold.
NextForm ==
    \/ user = NoUser /\ onAuthStateChanged(NoUser)
    \/ onAuthStateChanged("A")
    \/ \E o \in Pending : getDocResolved(o)
    \/ \E o \in Pending : profileWriteResolved(o)
    \/ \E v \in {"DASHBOARD", "ADD_EXPENSE"} : handleNavigate(v)
    \/ \E e \in Listed : startEdit(e)
    \/ subscriptionEffect
    \/ expensesSnapshot("A")
    \/ \E amount \in AmountTexts, description \in Descriptions :
          handleSave(amount, "FOOD", description)
    \/ \E o \in Pending : addExpenseResolved(o)
    \/ \E o \in Pending : updateExpenseResolved(o)
SpecForm == Init /\ [][NextForm]_vars

\* The login page: its mount effect, the password sign-in, the Google redirect
\* and the password reset, each resolving or failing with every error, and the
\* session the page opens and the user closes again.
NextLogin ==
    \/ authUser = "unset" /\ onAuthStateChanged(NoUser)
    \/ \E o \in Pending : getDocResolved(o)
    \/ \E o \in Pending : profileWriteResolved(o)
    \/ handleRedirectResult
    \/ \E o \in Pending, result \in {NoUser, "A"} : redirectResultResolved(o, result)
    \/ \E o \in Pending, err \in AuthErrors : redirectResultRejected(o, err)
    \/ loginSubmitEmpty
    \/ loginSubmit("A")
    \/ \E o \in Pending : signInResolved(o)
    \/ \E o \in Pending, err \in AuthErrors : signInRejected(o, err)
    \/ handleGoogleLogin
    \/ \E o \in Pending : redirected(o)
    \/ \E o \in Pending, err \in AuthErrors : redirectRejected(o, err)
    \/ forgotPasswordEmpty
    \/ handleForgotPassword
    \/ \E o \in Pending : resetResolved(o)
    \/ \E o \in Pending, err \in AuthErrors : resetRejected(o, err)
    \/ onConfirm
    \/ handleLogout
    \/ \E o \in Pending : signOutResolved(o)
SpecLogin == Init /\ [][NextLogin]_vars

\* The identity callback alone: the provider reports identities and "no
\* identity" in any order, also while earlier callbacks are suspended on their
\* profile read or write, and nothing navigates.
NextHandlers == AuthSteps
SpecHandlers == Init /\ [][NextHandlers]_vars

\* A page load over a store that holds two records of A; A's session is
\* restored, A opens one record after another for editing, saves, and goes back
\* to the dashboard while the write is in flight.
InitTwo == Constructed /\ expenseDocs = {StoredDoc(-1, Millis(0)), StoredDoc(0, Millis(1))}
NextInterim ==
    \/ onAuthStateChanged("A")
    \/ \E o \in Pending : getDocResolved(o)
    \/ \E o \in Pending : profileWriteResolved(o)
    \/ onConfirm
    \/ subscriptionEffect
    \/ expensesSnapshot("A")
    \/ \E e \in Listed : startEdit(e)
    \/ handleNavigate("DASHBOARD")
    \/ \E in \in EditInputs : handleUpdateExpense(in)
    \/ \E o \in Pending : updateExpenseResolved(o)
    \/ \E o \in Pending : mutationRejected(o)
SpecInterim == InitTwo /\ [][NextInterim]_vars

\* Two accounts on one page, one after the other: A signs in, lowers its budget
\* on the report screen and signs out, B signs in; the provider reports each
\* change only when no call is awaited, and only A changes a budget.
NextAccounts ==
    \/ inflight = EmptyBag /\ user = NoUser /\ \E u \in Uids : onAuthStateChanged(u)
    \/ inflight = EmptyBag /\ onAuthStateChanged(NoUser)
    \/ \E o \in Pending : getDocResolved(o)
    \/ \E o \in Pending : profileWriteResolved(o)
    \/ onConfirm
    \/ handleNavigate("REPORT")
    \/ subscriptionEffect
    \/ \E u \in Uids : profileSnapshot(u)
    \/ user = "A" /\ handleUpdateBudget(5000)
    \/ \E o \in Pending : updateBudgetResolved(o)
SpecAccounts == Init /\ [][NextAccounts]_vars

\* The listeners over a store that holds two records of A: identities come and
\* go one notification at a time, the effect subscribes and cleans up, the
\* listeners deliver.
NextScope ==
    \/ inflight = EmptyBag /\ \E u \in Uids \cup {NoUser} : onAuthStateChanged(u)
    \/ \E o \in Pending : getDocResolved(o)
    \/ \E o \in Pending : profileWriteResolved(o)
    \/ subscriptionEffect
    \/ \E u \in Uids : profileSnapshot(u)
    \/ \E u \in Uids : expensesSnapshot(u)
SpecScope == InitTwo /\ [][NextScope]_vars

\* Every mutation handler on its screen, signed in and signed out: A's session
\* over a store with two records is restored and ended, the screens of the
\* handlers are navigated to, the expense listener delivers (when not yet cleaned
\* up, also after the sign-out), and each handler is called where its screen
\* shows; the store answers the budget update and the delete.
NextGuards ==
    \/ inflight = EmptyBag /\ \E u \in {"A", NoUser} : onAuthStateChanged(u)
    \/ \E o \in Pending : getDocResolved(o)
    \/ \E o \in Pending : profileWriteResolved(o)
    \/ \E v \in {"DASHBOARD", "REPORT", "ADD_EXPENSE", "EDIT_EXPENSE"} : handleNavigate(v)
    \/ \E e \in Listed : startEdit(e)
    \/ subscriptionEffect
    \/ expensesSnapshot("A")
    \/ handleUpdateBudget(5000)
    \/ \E o \in Pending : updateBudgetResolved(o)
    \/ \E in \in AddInputs : handleAddExpense(in)
    \/ \E in \in EditInputs : handleUpdateExpense(in)
    \/ \E id \in ListedIds, c \in BOOLEAN : handleDeleteExpense(id, c)
    \/ \E o \in Pending : deleteExpenseResolved(o)
SpecGuards == InitTwo /\ [][NextGuards]_vars

\* Signing out of a restored session of A over two stored records, from the
\* dashboard or with a record open for editing; signOut resolves or throws.
NextLogout ==
    \/ onAuthStateChanged("A")
    \/ \E o \in Pending : getDocResolved(o)
    \/ \E o \in Pending : profileWriteResolved(o)
    \/ onConfirm
    \/ subscriptionEffect
    \/ expensesSnapshot("A")
    \/ \E e \in Listed : startEdit(e)
    \/ handleLogout
    \/ \E o \in Pending : signOutResolved(o)
    \/ \E o \in Pending : signOutRejected(o)
SpecLogout == InitTwo /\ [][NextLogout]_vars

\* Deleting one of two stored records of A: the confirmation is given or
\* declined, the store deletes or refuses, and meanwhile the user may open a
\* record for editing or go back to the dashboard.
NextDelete ==
    \/ onAuthStateChanged("A")
    \/ \E o \in Pending : getDocResolved(o)
    \/ \E o \in Pending : profileWriteResolved(o)
    \/ onConfirm
    \/ subscriptionEffect
    \/ expensesSnapshot("A")
    \/ \E e \in Listed : startEdit(e)
    \/ handleNavigate("DASHBOARD")
    \/ \E id \in ListedIds, c \in BOOLEAN : handleDeleteExpense(id, c)
    \/ \E o \in Pending : deleteExpenseResolved(o)
    \/ \E o \in Pending : mutationRejected(o)
SpecDelete == InitTwo /\ [][NextDelete]_vars

\* The listeners of one session and every error that can end them; the provider
\* reports "no identity" only on a page load without a session.
NextErrors ==
    \/ user = NoUser /\ onAuthStateChanged(NoUser)
    \/ onAuthStateChanged("A")
    \/ \E o \in Pending : getDocResolved(o)
    \/ \E o \in Pending : profileWriteResolved(o)
    \/ handleNavigate("REPORT")
    \/ subscriptionEffect
    \/ \E e \in Errors : profileError("A", e)
    \/ \E e \in StoreErrors : expensesError("A", e)
SpecErrors == Init /\ [][NextErrors]_vars

\* Navigation to every view, around one identity's expense list.
NextNav ==
    \/ \E u \in {"A", NoUser} : onAuthStateChanged(u)
    \/ \E o \in Pending : getDocResolved(o)
    \/ \E o \in Pending : profileWriteResolved(o)
    \/ NavSteps
    \/ subscriptionEffect
    \/ \E u \in Uids : expensesSnapshot(u)
    \/ \E in \in AddInputs : handleAddExpense(in)
    \/ \E o \in Pending : addExpenseResolved(o)
SpecNav == Init /\ [][NextNav]_vars

\* The identity callback under navigation.  Every awaited store call completes
\* (resolves or rejects); the provider and the user are free to do nothing.
AuthCompletes == \E o \in Pending :
    \/ getDocResolved(o) \/ getDocRejected(o)
    \/ profileWriteResolved(o) \/ profileWriteRejected(o)
NextAuth ==
    \/ AuthSteps
    \/ \E v \in ScreenViews : handleNavigate(v)
    \/ onConfirm
SpecAuth == Init /\ [][NextAuth]_vars /\ WF_vars(AuthCompletes)

\* One notification at a time: the provider reports the next identity change
\* only after the callback for the previous one has finished or thrown.  The
\* store answers every request, so each awaited call completes (weak fairness).
NextSignIn ==
    \/ inflight = EmptyBag /\ \E u \in Uids \cup {NoUser} : onAuthStateChanged(u)
    \/ \E o \in Pending : getDocResolved(o)
    \/ \E o \in Pending : getDocRejected(o)
    \/ \E o \in Pending : profileWriteResolved(o)
    \/ \E o \in Pending : profileWriteRejected(o)
    \/ \E v \in ScreenViews : handleNavigate(v)
    \/ onConfirm
    \/ Tick
SpecSignIn == Init /\ [][NextSignIn]_vars /\ WF_vars(AuthCompletes)

\* Loading and signing out.  The provider delivers its first notification, the
\* store and the provider answer every awaited call (it resolves or rejects),
\* and a later identity change is reported only after the callback for the
\* previous one has finished or thrown.
FirstNotification ==
    authUser = "unset" /\ \E u \in Uids \cup {NoUser} : onAuthStateChanged(u)
SignOutCompletes == \E o \in Pending : signOutResolved(o) \/ signOutRejected(o)
NextLoading ==
    \/ inflight = EmptyBag /\ \E u \in Uids \cup {NoUser} : onAuthStateChanged(u)
    \/ \E o \in Pending : getDocResolved(o)
    \/ \E o \in Pending : getDocRejected(o)
    \/ \E o \in Pending : profileWriteResolved(o)
    \/ \E o \in Pending : profileWriteRejected(o)
    \/ onConfirm
    \/ handleLogout
    \/ \E o \in Pending : signOutResolved(o)
    \/ \E o \in Pending : signOutRejected(o)
SpecLoading ==
    /\ Init /\ [][NextLoading]_vars
    /\ WF_vars(FirstNotification)
    /\ WF_vars(AuthCompletes)
    /\ WF_vars(SignOutCompletes)
----------------------------------------------------------------------------
\* Properties

\* A field of a store document, as a sequence: empty when the document lacks it.
Field(d, f) == IF f \in DOMAIN d THEN <<d[f]>> ELSE <<>>

\* C1: in every reachable state editingExpense is non-null if and only if
\* view = EDIT_EXPENSE.
C1_EditingIffEditView ==
    (editingExpense # NoExpense) <=> (view = "EDIT_EXPENSE")

\* C2: every sign-out step (the callback's signed-out branch, or a resolved
\* signOut) ends with user = null, expenses = [], the budget back at its default,
\* editingExpense = null and view = LOGIN.
C2_SignOutClears ==
    [][(onAuthStateChanged(NoUser) \/ \E o \in Pending : signOutResolved(o))
         => /\ user' = NoUser
            /\ expenses' = <<>>
            /\ budget' = DefaultBudget
            /\ editingExpense' = NoExpense
            /\ view' = "LOGIN"]_vars

\* C3: once the callback has started for an identity from the signed-out state,
\* the controller reaches a state with user set and view neither LOGIN nor
\* REGISTER.
C3_SignInLeavesLogin ==
    (last = "signedIn") ~> (user # NoUser /\ view \notin {"LOGIN", "REGISTER"})

\* C4: at most one subscription pair is active: every active listener belongs to
\* the pair of the last effect run, one listener per kind; and a callback that
\* modifies expenses, budget, dbError or indexUrl is a callback of that pair.
C4_OnePair ==
    /\ [](/\ listeners \subseteq Pair(subUser)
          /\ \A k \in {"profile", "expenses"} :
                Cardinality({l \in listeners : l[1] = k}) <= 1)
    /\ [][\A u \in Uids :
            /\ \/ profileSnapshot(u) \/ expensesSnapshot(u)
               \/ \E e \in Errors : profileError(u, e) \/ expensesError(u, e)
            /\ <<expenses, budget, dbError, indexUrl>>' # <<expenses, budget, dbError, indexUrl>>
            => u = subUser]_vars

\* C4 witness: the effect has torn down the live pair of one identity and
\* subscribed the pair of another.
C4_Witness ==
    /\ last = "resubscribed"
    /\ subUser = "B"
    /\ listeners = Pair("B")

\* C5: navigate(target) sets view = target, clears editingExpense for every
\* target but EDIT_EXPENSE, and leaves user, expenses, budget and dbError alone.
C5_Navigate ==
    [][\A target \in Views :
          handleNavigate(target)
            => /\ view' = target
               /\ target # "EDIT_EXPENSE" => editingExpense' = NoExpense
               /\ UNCHANGED <<user, expenses, budget, dbError>>]_vars

\* C5 witness: a navigation away from EDIT_EXPENSE, where a record was being
\* edited, has cleared it.
C5_Witness ==
    /\ last = "navigatedFromEdit"
    /\ view # "EDIT_EXPENSE"
    /\ editingExpense = NoExpense
    /\ expenses # <<>>

\* C6: a write of addExpense, updateExpense, deleteExpense or updateBudget that
\* fails leaves view, user, expenses, budget and editingExpense (and the stored
\* documents) as they were, at the call and at the failure, and the failed call is not
\* issued again: it leaves the awaited calls, replaced by nothing but the
\* merge-write fallback of an updateBudget that found no document.
C6_FailedWrite ==
    [][/\ (\/ \E in \in AddInputs : handleAddExpense(in)
           \/ \E in \in EditInputs : handleUpdateExpense(in)
           \/ \E id \in ListedIds : handleDeleteExpense(id, TRUE)
           \/ \E b \in Budgets : handleUpdateBudget(b))
          => /\ UNCHANGED <<view, user, expenses, budget, editingExpense>>
             /\ UNCHANGED <<profiles, expenseDocs>>
       /\ \A o \in Pending :
            (\/ mutationRejected(o)
             \/ o.op = "updateBudget" /\ \E c \in ErrorCodes(o.uid) : updateBudgetRejected(o, c))
              => /\ UNCHANGED <<view, user, expenses, budget, editingExpense>>
                 /\ UNCHANGED <<profiles, expenseDocs>>
                 /\ \/ inflight' = inflight (-) One(o)
                    \/ /\ o.op = "updateBudget" /\ profiles[o.uid] = NoDoc
                       /\ \E m \in BagToSet(inflight') :
                             /\ m.op = "mergeBudget"
                             /\ inflight' = (inflight (-) One(o)) (+) One(m)]_vars

\* C6 witness: the update of the edited record failed and the form is still open
\* on that record.
C6_Witness ==
    /\ last = "updateExpenseFailed"
    /\ view = "EDIT_EXPENSE"
    /\ editingExpense # NoExpense
    /\ user # NoUser

\* C7: a write of the profile ensure that lands on an existing profile document
\* changes neither its createdAt nor its monthlyBudget.
C7_EnsureKeepsProfile ==
    [][\A o \in Pending :
          profileWriteResolved(o) /\ profiles[o.uid] # NoDoc
            => /\ Field(profiles'[o.uid], "createdAt") = Field(profiles[o.uid], "createdAt")
               /\ Field(profiles'[o.uid], "monthlyBudget")
                    = Field(profiles[o.uid], "monthlyBudget")]_vars

\* C8: when the profile read or write of the callback fails, user stays as it
\* is, loading becomes false and view is past LOGIN and REGISTER.
C8_AuthFailureProceeds ==
    [][\A o \in Pending :
          (getDocRejected(o) \/ profileWriteRejected(o))
            => /\ user' = user
               /\ loading' = FALSE
               /\ view' \notin {"LOGIN", "REGISTER"}]_vars

\* C9: the callback for an identity leaves view unchanged when it finds a view
\* other than LOGIN and REGISTER.
C9_AuthKeepsView ==
    [][\A o \in Pending :
          /\ \/ getDocResolved(o) \/ getDocRejected(o)
             \/ profileWriteResolved(o) \/ profileWriteRejected(o)
          /\ view \notin {"LOGIN", "REGISTER"}
          => view' = view]_vars

\* C10: every record of expenses and the record in editingExpense belong to the
\* signed-in identity; with no identity, expenses is empty and editingExpense null.
C10_RecordsBelongToUser ==
    /\ \A i \in 1..Len(expenses) : expenses[i].userId = user
    /\ editingExpense # NoExpense => editingExpense.userId = user
    /\ user = NoUser => expenses = <<>> /\ editingExpense = NoExpense

\* C11: an addExpense or updateExpense whose write resolves after the session
\* that started it was signed out changes none of view, user, expenses and
\* editingExpense.
C11_LateWriteIsInert ==
    [][\A o \in Pending :
          /\ o.op \in {"addExpense", "updateExpense"}
          /\ addExpenseResolved(o) \/ updateExpenseResolved(o)
          /\ user # o.uid
          => UNCHANGED <<view, user, expenses, editingExpense>>]_vars

\* C12: an error of the expense listener whose message contains a text that
\* starts with https://console.firebase.google.com sets dbError = INDEX_REQUIRED
\* and indexUrl to such a text of the message, from the prefix up to the next
\* whitespace (or the end of the message); view stays as it is.
C12_IndexUrlExtracted ==
    [][\A u \in Uids, e \in StoreErrors :
          expensesError(u, e) /\ Includes(e.message)
            => /\ dbError' = IndexRequired
               /\ view' = view
               /\ \E i \in 1..Len(e.message) : \E j \in i..Len(e.message) :
                     /\ e.message[i] = UrlPrefix
                     /\ \A k \in i..j : e.message[k] # Space
                     /\ j = Len(e.message) \/ e.message[j + 1] = Space
                     /\ indexUrl' = SubSeq(e.message, i, j)]_vars

\* C12 witness: on the report screen an index error has been taken, its URL cut
\* out of a longer message.
C12_Witness ==
    /\ dbError = IndexRequired
    /\ indexUrl = IndexUrl
    /\ view = "REPORT"
    /\ user = "A"

\* C13: every error of the profile listener or of the expense listener sets
\* dbError by its kind: PERMISSION_DENIED for a refused read, INDEX_REQUIRED for
\* a message that names the console URL, the message itself for any other error
\* (the kinds taken where they exclude each other).
C13_ErrorPolicy ==
    [][\A u \in Uids, e \in StoreErrors :
          /\ profileError(u, e) \/ expensesError(u, e)
          /\ ~(e.code = "permission-denied" /\ Includes(e.message))
          => dbError' = CASE e.code = "permission-denied" -> PermissionDenied
                          [] Includes(e.message) -> IndexRequired
                          [] OTHER -> e.message]_vars

\* C14: addExpense called by a signed-in user issues exactly one write, of a
\* document under a key no stored document and no other pending write has, with
\* id = that key, userId = the user, the amount, item and description given and
\* timestamp = the time of the call; when the write resolves exactly that
\* document is added to the store and view becomes DASHBOARD.
C14_AddExpense ==
    [][/\ \A in \in AddInputs :
            handleAddExpense(in) /\ user # NoUser
              => /\ inflight' = inflight (+)
                       One([op |-> "addExpense", uid |-> user, key |-> nextKey,
                            data |-> [id |-> nextKey, userId |-> user, amount |-> in[1],
                                      item |-> in[2], description |-> in[3],
                                      timestamp |-> Millis(now)]])
                 /\ \A d \in expenseDocs : d.key # nextKey
                 /\ \A q \in Pending : q.op = "addExpense" => q.key # nextKey
                 /\ UNCHANGED <<profiles, expenseDocs>>
       /\ \A o \in Pending :
            o.op = "addExpense" /\ addExpenseResolved(o)
              => /\ [uid |-> o.uid, key |-> o.key, data |-> o.data] \notin expenseDocs
                 /\ expenseDocs' = expenseDocs
                                     \cup {[uid |-> o.uid, key |-> o.key, data |-> o.data]}
                 /\ o.data.id = o.key /\ o.data.userId = o.uid
                 /\ view' = "DASHBOARD"]_vars

\* C14 witness: a document written by addExpense at time 1 is in the store, the
\* view is DASHBOARD and the snapshot has not delivered it yet.
C14_Witness ==
    /\ view = "DASHBOARD"
    /\ expenses = <<>>
    /\ \E d \in expenseDocs :
          /\ d.uid = "A" /\ d.data.userId = "A" /\ d.data.id = d.key
          /\ d.data.amount = 100 /\ d.data.item = "FOOD" /\ d.data.description = "lunch"
          /\ d.data.timestamp = Millis(1)

C16_DeleteAfterConfirm ==
    [][/\ \A id \in ListedIds :
            /\ handleDeleteExpense(id, FALSE) /\ user # NoUser
                 => UNCHANGED <<ctl, inflight, store>>
            /\ handleDeleteExpense(id, TRUE) /\ user # NoUser
                 => /\ inflight' = inflight (+)
                          One([op |-> "deleteExpense", uid |-> user, key |-> id])
                    /\ UNCHANGED <<ctl, store>>
       /\ \A o \in BagToSet(inflight') :
            o.op = "deleteExpense" /\ CopiesIn(o, inflight') > CopiesIn(o, inflight)
              => /\ last' # "deleteDeclined"
                 /\ handleDeleteExpense(o.key, TRUE)
                 /\ o.uid = user /\ o.key \in ListedIds
       /\ \A o \in Pending :
            o.op = "deleteExpense" /\ deleteExpenseResolved(o)
              => /\ expenseDocs' = expenseDocs
                       \ {d \in expenseDocs : d.uid = o.uid /\ d.key = o.key}
                 /\ UNCHANGED <<ctl, profiles>>]_vars

\* C16 witness: a confirmed delete of the listed record is pending, once, and the
\* user has since asked again and declined.
C16_Witness ==
    /\ last = "deleteDeclined"
    /\ user = "A"
    /\ \E id \in ListedIds :
          /\ inflight = One([op |-> "deleteExpense", uid |-> "A", key |-> id])
          /\ \E d \in expenseDocs : d.uid = "A" /\ d.key = id

\* C17: startEdit(record) leaves editingExpense = record and view = EDIT_EXPENSE,
\* whatever editingExpense was before (null, the same record or a stale copy of
\* it) and in every state in which the program can call it.
C17_StartEdit ==
    [][\A e \in Listed :
          startEdit(e) => editingExpense' = e /\ view' = "EDIT_EXPENSE"]_vars

\* C17 witness: startEdit was called while a record was already being edited,
\* and the record now edited is the listed one, with the values of the last
\* update.
C17_Witness ==
    /\ last = "startEditAgain"
    /\ view = "EDIT_EXPENSE"
    /\ editingExpense \in Listed
    /\ editingExpense.amount = 250

\* C18: in every variant, when the updateDoc of updateBudget(newValue) fails with
\* 'not-found' the handler issues a merge-write of monthlyBudget = newValue to
\* users/{uid}; when that write resolves the profile document exists with
\* monthlyBudget = newValue and every other field it had is as it was.
C18_BudgetFallback ==
    [][\A o \in Pending :
          /\ o.op = "updateBudget" /\ updateBudgetRejected(o, "not-found")
               => inflight' = (inflight (-) One(o))
                     (+) One([op |-> "mergeBudget", uid |-> o.uid, value |-> o.value])
          /\ o.op = "mergeBudget" /\ mergeBudgetResolved(o)
               => /\ profiles'[o.uid] # NoDoc
                  /\ profiles'[o.uid].monthlyBudget = o.value
                  /\ profiles[o.uid] # NoDoc
                       => \A f \in DOMAIN profiles[o.uid] \ {"monthlyBudget"} :
                             /\ f \in DOMAIN profiles'[o.uid]
                             /\ profiles'[o.uid][f] = profiles[o.uid][f]
                  /\ \A u \in Uids \ {o.uid} : profiles'[u] = profiles[u]]_vars

\* C19: once the profile of identity A, created by its first sign-in with
\* monthlyBudget = 10000, holds 5000 after a successful updateBudget(5000), the
\* stored budget stays 5000 (no later notification for A sets it back to 10000)
\* and every profile snapshot for A leaves the controller's budget at 5000.
C19_BudgetScenario ==
    [][(profiles["A"] # NoDoc /\ profiles["A"].monthlyBudget = 5000)
          => /\ profiles'["A"] # NoDoc /\ profiles'["A"].monthlyBudget = 5000
             /\ profileSnapshot("A") => budget' = 5000]_vars

\* C20: round trip through the store.  A resolved addExpense leaves in the store
\* the document it was called with (amount, item, description, and as timestamp
\* the time of the call); an expense snapshot then lists, for every stored
\* document of the user, exactly one record with that id and these values, and
\* nothing else; a confirmed deleteExpense that resolved leaves no document of
\* that id, so the snapshot after it lists no record with that id.
C20_RoundTrip ==
    [][/\ \A in \in AddInputs :
            handleAddExpense(in) /\ user # NoUser
              => \E o \in BagToSet(inflight') :
                    /\ o.op = "addExpense" /\ o.key = nextKey
                    /\ o.data.amount = in[1] /\ o.data.item = in[2]
                    /\ o.data.description = in[3] /\ o.data.timestamp = Millis(now)
       /\ \A o \in Pending :
            /\ o.op = "addExpense" /\ addExpenseResolved(o)
                 => \E d \in expenseDocs' :
                       d.uid = o.uid /\ d.key = o.key /\ d.data = o.data
            /\ o.op = "deleteExpense" /\ deleteExpenseResolved(o)
                 => \A d \in expenseDocs' : ~(d.uid = o.uid /\ d.key = o.key)
       /\ \A u \in Uids :
            expensesSnapshot(u)
              => /\ Len(expenses') = Cardinality(DocsOf(u))
                 /\ \A d \in DocsOf(u) :
                       \E i \in 1..Len(expenses') :
                          /\ expenses'[i].id = d.key
                          /\ expenses'[i].amount = d.data.amount
                          /\ expenses'[i].item = d.data.item
                          /\ expenses'[i].description = d.data.description
                          /\ d.data.timestamp = Millis(expenses'[i].timestamp)
                          /\ \A j \in 1..Len(expenses') :
                                expenses'[j].id = d.key => j = i
                 /\ \A k \in 1..MaxDocs :
                       (\A d \in DocsOf(u) : d.key # k)
                         => \A i \in 1..Len(expenses') : expenses'[i].id # k]_vars

\* C20 witness: the record was added and listed (a delete can only be asked for
\* a listed record), the user confirmed its delete twice, the first delete has
\* resolved and the snapshot after it lists nothing; the second is still pending.
C20_Witness ==
    /\ expenses = <<>>
    /\ expenseDocs = {}
    /\ nextKey > 1
    /\ \E o \in Pending : o.op = "deleteExpense" /\ o.uid = "A" /\ o.key = 1

\* C21: until the provider's first notification has been delivered the
\* controller is as constructed (user null, view LOGIN, loading true); once a
\* notification has been delivered, loading becomes false, whatever the identity
\* and whatever the outcome of the profile read and write.
C21_LoadingUntilNotified ==
    /\ [](authUser = "unset" => loading /\ user = NoUser /\ view = "LOGIN")
    /\ (authUser # "unset") ~> ~loading

\* C22: a profile snapshot sets budget to the monthlyBudget of the delivered
\* document and leaves every other controller field as it was; an expense
\* snapshot sets expenses to the delivered records and leaves every other
\* controller field as it was; and neither delivery changes anything the other
\* one reads (the listeners, the stored documents, the variant's sort), so one
\* profile and one expense snapshot give the same budget and expenses in either
\* order.
C22_SnapshotsReplaceOwnSlice ==
    [][\A u \in Uids :
          /\ profileSnapshot(u)
               => /\ profiles[u] # NoDoc => budget' = profiles[u].monthlyBudget
                  /\ UNCHANGED <<view, user, expenses, editingExpense, loading,
                                 dbError, indexUrl>>
                  /\ UNCHANGED <<variant, listeners, store>>
          /\ expensesSnapshot(u)
               => /\ expenses' = SnapshotExpenses(u)
                  /\ UNCHANGED <<view, user, budget, editingExpense, loading,
                                 dbError, indexUrl>>
                  /\ UNCHANGED <<variant, listeners, store>>]_vars

\* C22 witness: B is signed in after A; A's stored budget is 5000 (so budget was
\* 5000 when A's update resolved) and B's profile snapshot has since set budget
\* to B's 10000, while the expense snapshot has listed B's record.
C22_Witness ==
    /\ user = "B"
    /\ profiles["A"] # NoDoc /\ profiles["A"].monthlyBudget = 5000
    /\ profiles["B"] # NoDoc /\ budget = profiles["B"].monthlyBudget
    /\ budget = DefaultBudget
    /\ expenses # <<>>
    /\ expenses = SnapshotExpenses("B")

\* C23: in every variant the expenses list, which only expense snapshots set,
\* is in non-increasing order of the records' timestamps, whatever form the
\* timestamps of the delivered documents have in the store.
C23_ExpensesOrdered ==
    \A i \in 1..(Len(expenses) - 1) : expenses[i].timestamp >= expenses[i + 1].timestamp

\* C24: in every variant, when the callback for an identity reads a profile
\* that exists it issues one write of lastLogin = the current time; when that
\* write resolves lastLogin has that value and every other field of the
\* profile, and every other profile, is as it was.
C24_LastLoginRefreshed ==
    [][\A o \in Pending :
          /\ o.op = "getDoc" /\ getDocResolved(o) /\ profiles[o.uid] # NoDoc
               => inflight' = (inflight (-) One(o))
                                (+) One([op |-> "updateDoc", uid |-> o.uid, t |-> now])
          /\ o.op = "updateDoc" /\ profileWriteResolved(o)
               => /\ profiles'[o.uid].lastLogin = o.t
                  /\ DOMAIN profiles'[o.uid] = DOMAIN profiles[o.uid]
                  /\ \A f \in DOMAIN profiles[o.uid] \ {"lastLogin"} :
                        profiles'[o.uid][f] = profiles[o.uid][f]
                  /\ \A u \in Uids \ {o.uid} : profiles'[u] = profiles[u]]_vars

\* C25: in the variants with a WELCOME screen (0 and 1), once the user of a
\* session has confirmed WELCOME (view = DASHBOARD), no step that keeps the
\* session (handleLogin called by the login form, the continuation of the
\* notification's callback, a repeated notification) sets view back to WELCOME.
C25_WelcomeOncePerSession ==
    [][(/\ variant \in {0, 1}
        /\ user # NoUser /\ user' = user
        /\ view = "DASHBOARD")
         => view' # "WELCOME"]_vars

\* C26: once a subscription error has set dbError, every step of the same
\* session (a navigation, a snapshot, an identity notification and what follows
\* it) leaves dbError set, and indexUrl set if it was; only a page load clears
\* them.
C26_DbErrorPersists ==
    [][(/\ dbError # Null
        /\ user # NoUser /\ user' = user
        /\ last' # "reload")
         => /\ dbError' # Null
            /\ indexUrl # Null => indexUrl' # Null]_vars

\* The calls of addExpense and updateExpense that a step issues.
Issued == {o \in BagToSet(inflight') :
             /\ o.op \in {"addExpense", "updateExpense"}
             /\ CopiesIn(o, inflight') > CopiesIn(o, inflight)}

\* C27: every addExpense or updateExpense call that a save of the form issues
\* carries a numeric amount above 0 and a non-empty description; a save that
\* the form refuses (the alert) issues no call and changes neither the
\* controller nor the store; so every stored record has such an amount and
\* description.
C27_FormForwardsValidInput ==
    /\ [][/\ \A o \in Issued : /\ o.data.amount \in Nat \ {0}
                                /\ o.data.description # ""
          /\ last' = "alert" => UNCHANGED <<ctl, inflight, store>>]_vars
    /\ [](\A d \in expenseDocs : d.data.amount \in Nat \ {0} /\ d.data.description # "")

\* A record saved from the text "10" is in the store while the form, opened
\* again, has just refused an input.
C27_Witness ==
    /\ last = "alert"
    /\ \E d \in expenseDocs : d.data.amount = 10 /\ d.data.description = "lunch"

\* A call of the mounted Login fails with `err`.
LoginFailure(o, err) ==
    /\ o \in form.awaits
    /\ \/ signInRejected(o, err)
       \/ redirectResultRejected(o, err)
       \/ redirectRejected(o, err)
       \/ resetRejected(o, err)

\* C28 as stated: every failure of a call of the login view (sign-in, redirect,
\* redirect result, password reset; any error) leaves the login view mounted
\* with a non-empty error message and loading false, and leaves the controller's
\* view and user as they were (onLogin is not called).
C28_FailureEndsIdle ==
    [][\A o \in Pending, err \in AuthErrors :
          LoginFailure(o, err)
            => /\ form'.mounted
               /\ form'.error # <<>>
               /\ ~form'.loading
               /\ UNCHANGED <<view, user>>]_vars

\* C28, amended: every failure of a call of the login view leaves the login view
\* mounted with a non-empty error message and the controller's view and user as
\* they were; loading is false after a failed sign-in, redirect or password
\* reset, while a failed redirect result leaves loading as it was, which is
\* false unless another call of the login view is still pending.
C28_FailureKeepsLogin ==
    [][\A o \in Pending, err \in AuthErrors :
          LoginFailure(o, err)
            => /\ form'.mounted
               /\ form'.error # <<>>
               /\ IF o.op = "getRedirectResult"
                  THEN /\ form'.loading = form.loading
                       /\ form'.awaits = {} => ~form'.loading
                  ELSE ~form'.loading
               /\ UNCHANGED <<view, user>>]_vars

\* The login view after a sign-in that the provider rejected for its
\* credentials: the message, no overlay, nobody signed in.
C28_Witness ==
    /\ form.mounted
    /\ form.error = <<"wrong account or password">>
    /\ ~form.loading
    /\ view = "LOGIN" /\ user = NoUser

\* The stored texts no variant reads a date from.
Unparseable == {<<>>, <<"x">>}

\* C29: whatever timestamp a stored document holds (a number, a Timestamp
\* object, a text, null), the handler's mapping gives it a record with a natural
\* number as timestamp, and a delivery makes one record per stored document of
\* the user, each with a natural number as timestamp: a stored number is kept, a stored object with seconds becomes
\* seconds times 1000, a stored null or unparseable text becomes the current
\* time.
C29_TimestampsNormalized ==
    /\ [](\A d \in DocsOf("A") : ToExpense(d).timestamp \in Nat)
    /\ [][expensesSnapshot("A")
           => /\ Len(expenses') = Cardinality(DocsOf("A"))
              /\ \A d \in DocsOf("A") :
                   \E i \in 1..Len(expenses') :
                      LET ts == d.data.timestamp
                          e == expenses'[i]
                      IN  /\ e.id = d.key
                          /\ e.timestamp \in Nat
                          /\ IsNumber(ts) => e.timestamp = ts.number
                          /\ HasSeconds(ts) => e.timestamp = ts.seconds * 1000
                          /\ ts = NullTs => e.timestamp = now
                          /\ (IsString(ts) /\ ts.text \in Unparseable)
                                => e.timestamp = now]_vars

\* A delivered list of two records, one from a Timestamp object of second 1
\* (1000 ms) and one from the unparseable text "x" (the current time).
C29_Witness ==
    /\ Len(expenses) = 2
    /\ \E d \in DocsOf("A"), i \in 1..2 :
          /\ d.data.timestamp = Seconds(1)
          /\ expenses[i].id = d.key /\ expenses[i].timestamp = 1000
    /\ \E d \in DocsOf("A"), i \in 1..2 :
          /\ d.data.timestamp = Text(<<"x">>)
          /\ expenses[i].id = d.key /\ expenses[i].timestamp = now

\* C30: whenever user = null and no handler of an identity notification is
\* suspended (each has finished), view is LOGIN or REGISTER: a sign-in
\* continuation that resumes after a "no identity" notification has been handled
\* does not move view to WELCOME or DASHBOARD.
C30_SignedOutWhenSettled ==
    (user = NoUser /\ inflight = EmptyBag) => view \in {"LOGIN", "REGISTER"}

\* C31: an updateExpense call carries the id of the record that is
\* editingExpense when handleUpdateExpense is called, and when its write
\* completes while the user has meanwhile opened another record for editing, the
\* completion leaves that newer editingExpense and view = EDIT_EXPENSE alone.
C31_CompletionKeepsNewerEdit ==
    [][/\ \A o \in BagToSet(inflight') :
            (o.op = "updateExpense" /\ CopiesIn(o, inflight') > CopiesIn(o, inflight))
               => editingExpense # NoExpense /\ o.key = editingExpense.id
       /\ \A o \in Pending :
            (/\ updateExpenseResolved(o)
             /\ editingExpense # NoExpense
             /\ editingExpense.id # o.key)
               => editingExpense' = editingExpense /\ view' = "EDIT_EXPENSE"]_vars

\* C32: while B is the authenticated user, the budget is the default 10000 or
\* the monthlyBudget of B's profile, never the 5000 that A, signed in before B,
\* set for itself (B's profile, once created, holds the default).
C32_BudgetOfCurrentAccount ==
    user = "B" =>
        \/ budget = DefaultBudget
        \/ /\ profiles["B"] # NoDoc
           /\ "monthlyBudget" \in DOMAIN profiles["B"]
           /\ budget = profiles["B"].monthlyBudget

\* C33: in every reachable state dbError = INDEX_REQUIRED if and only if
\* indexUrl is non-null, also after later errors of other kinds and after
\* sign-out.
C33_IndexUrlIffIndexRequired ==
    (dbError = IndexRequired) <=> (indexUrl # Null)

\* Signed out again with the index error of the ended session still shown.
C33_Witness ==
    /\ user = NoUser /\ authUser = NoUser
    /\ dbError = IndexRequired
    /\ indexUrl = IndexUrl

\* C34: once the subscription effect has run for the current render, every
\* active listener is one of the pair of the current user, so none is active
\* while user = null; and at every step a snapshot that changes expenses or
\* budget is a snapshot of the current user's documents.
C34_ListenersOfCurrentUser ==
    /\ [](~effectStale
            => listeners \subseteq (IF user = NoUser THEN {} ELSE Pair(user)))
    /\ [][\A u \in Uids :
            /\ profileSnapshot(u) \/ expensesSnapshot(u)
            /\ <<expenses, budget>>' # <<expenses, budget>>
            => u = user]_vars

\* A call of one of the four mutation handlers.
MutationCall ==
    \/ \E b \in Budgets : handleUpdateBudget(b)
    \/ \E in \in AddInputs : handleAddExpense(in)
    \/ \E in \in EditInputs : handleUpdateExpense(in)
    \/ \E id \in ListedIds, c \in BOOLEAN : handleDeleteExpense(id, c)

\* C35: a mutation handler called while user = null, and handleUpdateExpense
\* called while editingExpense = null, returns at its guard: it issues no store
\* call, asks for no confirmation and changes no controller state, listener or
\* stored document.
C35_GuardedMutations ==
    [][(\/ user = NoUser /\ MutationCall
        \/ editingExpense = NoExpense /\ \E in \in EditInputs : handleUpdateExpense(in))
         => /\ last' = "returned"
            /\ UNCHANGED <<ctl, subs, inflight, store>>]_vars

\* Signed out, a record of the ended session is still listed on the dashboard
\* and a delete of it has returned at the guard.
C35_Witness ==
    /\ last = "returned"
    /\ user = NoUser
    /\ view = "DASHBOARD" /\ expenses # <<>>

\* C36: when signOut throws, user, expenses, view and editingExpense are what
\* they were and loading is false afterwards, in each variant.
C36_FailedSignOutKeepsSession ==
    [][\A o \in Pending :
          signOutRejected(o)
            => /\ UNCHANGED <<user, expenses, view, editingExpense>>
               /\ loading' = FALSE]_vars

\* A sign-out from the edit screen has failed: A is still signed in with its
\* records listed and the record still open, and the spinner is gone.
C36_Witness ==
    /\ last = "signOutFailed"
    /\ user = "A" /\ Len(expenses) = 2
    /\ view = "EDIT_EXPENSE" /\ editingExpense # NoExpense
    /\ ~loading

\* C37: in variants 0 and 1, when the first notification is delivered and every
\* awaited call completes, each state with loading = true is eventually
\* followed by a state with loading = false.
C37_LoadingEnds == (variant \in {0, 1} /\ loading) ~> ~loading

\* C38: the call of deleteExpense and its completion, successful or failed,
\* leave view, editingExpense, budget and the expenses list as they were; the
\* list changes only in a step of the expense snapshot handler.
C38_DeleteLeavesController ==
    /\ [][(\/ \E id \in ListedIds, c \in BOOLEAN : handleDeleteExpense(id, c)
           \/ \E o \in Pending :
                 o.op = "deleteExpense"
                 /\ (deleteExpenseResolved(o) \/ mutationRejected(o)))
            => UNCHANGED <<view, editingExpense, budget, expenses>>]_vars
    /\ [][expenses' # expenses => expensesSnapshot("A")]_vars

\* The store has deleted one of the two records while the other was opened
\* for editing; the list still shows both until the next snapshot.
C38_Witness ==
    /\ Cardinality(expenseDocs) = 1 /\ Len(expenses) = 2
    /\ inflight = EmptyBag
    /\ view = "EDIT_EXPENSE" /\ editingExpense # NoExpense

====
